---------------------------- MODULE Spec2Model ----------------------------
(***************************************************************************)
(* A model of the paperwork generator: the date and naming helpers         *)
(* (app/services/helpers.py), the loadsheet populator                      *)
(* (app/services/loadsheet.py) and the timesheet populator                 *)
(* (app/services/timesheet.py), with the request shapes of app/schemas.py, *)
(* the settings of app/config.py and the HTTP endpoints of app/main.py.    *)
(*                                                                         *)
(* Python strings are TLA+ strings (TLC evaluates Len, \o, Head, Tail and  *)
(* SubSeq on them); a datetime at midnight is its proleptic Gregorian      *)
(* ordinal, as in CPython's datetime; a worksheet is the sequence of the   *)
(* assignments made to its cells since the template was loaded.            *)
(***************************************************************************)
EXTENDS Integers, Sequences, FiniteSets, TLC

VARIABLES
    templates,      \* the template files present under settings.templates_dir
    merged_cells,   \* the merged ranges of the timesheet template's sheet
    folders,        \* the week folders present under settings.output_dir
    files,          \* saved workbooks: path -> worksheet
    pdfs,           \* the PDF files present under settings.output_dir
    pdf_override,   \* Settings._pdf_enabled_override: <<>> is None, <<b>> is b
    environ,        \* os.environ: the set of variables and their values
    pc,             \* position of the running call
    call,           \* the function called and its argument
    ws,             \* the worksheet the running call holds in memory
    locals,         \* the local variables of the running call
    outcome,        \* what the last finished call returned or raised
    history         \* the operations completed so far, oldest first

vars == <<templates, merged_cells, folders, files, pdfs, pdf_override, environ,
          pc, call, ws, locals, outcome, history>>

fsvars == <<templates, merged_cells, folders, files, pdfs>>
cfgvars == <<pdf_override, environ>>

-----------------------------------------------------------------------------
(* Bounds of the model.                                                    *)

\* Number of consecutive calendar days, from FirstDay on, requests are dated in.
MaxDays == 110

\* Longest text handed to sanitize_filename.
MaxNameLen == 4

\* _generate_load_summary is called on its own with 0 .. MaxSummaryCars cars.
MaxSummaryCars == 3

\* The application serves at most MaxCalls generation requests in a run.
MaxCalls == 2

\* The settings are changed at most MaxSettingsOps times in a run.
MaxSettingsOps == 4

\* A loadsheet request carries 0 .. MaxCars cars (the template has 8 slots).
MaxCars == 9

\* A timesheet request whose days differ in their loads lists 1 .. MaxDayEntries
\* day entries.
MaxDayEntries == 2

\* A day entry carries 0 .. MaxLoads loads (a day has 3 fixed rows).
MaxLoads == 5

\* A timesheet request whose days differ in their times lists 1 .. MaxTimeDays
\* day entries.
MaxTimeDays == 2

\* A timesheet request whose days differ in their hours lists 1 .. MaxHoursDays
\* day entries (at most 7, one per weekday).
MaxHoursDays == 4

-----------------------------------------------------------------------------
(* Python str methods.                                                     *)

Lowers == "abcdefghijklmnopqrstuvwxyz"
Uppers == "ABCDEFGHIJKLMNOPQRSTUVWXYZ"
Digits == "0123456789"
Whitespace == {" ", "\t", "\n"}

Char(s, i) == SubSeq(s, i, i)

Chars(s) == {Char(s, i) : i \in 1..Len(s)}

IndexIn(c, s) == CHOOSE i \in 1..Len(s) : Char(s, i) = c

\* The upper-case form of each lower-case letter, and the converse.
UpperOf == [c \in Chars(Lowers) |-> Char(Uppers, IndexIn(c, Lowers))]

LowerOf == [c \in Chars(Uppers) |-> Char(Lowers, IndexIn(c, Uppers))]

UpperChar(c) == IF c \in DOMAIN UpperOf THEN UpperOf[c] ELSE c

LowerChar(c) == IF c \in DOMAIN LowerOf THEN LowerOf[c] ELSE c

\* str.upper(): every character upper-cased (the text is halved at each
\* step to keep the evaluation shallow).
RECURSIVE Upper(_)
Upper(s) ==
    IF Len(s) <= 1 THEN UpperChar(s)
    ELSE Upper(SubSeq(s, 1, Len(s) \div 2)) \o Upper(SubSeq(s, (Len(s) \div 2) + 1, Len(s)))

\* str.lower()
RECURSIVE Lower(_)
Lower(s) ==
    IF Len(s) <= 1 THEN LowerChar(s)
    ELSE Lower(SubSeq(s, 1, Len(s) \div 2)) \o Lower(SubSeq(s, (Len(s) \div 2) + 1, Len(s)))

RECURSIVE LStrip(_, _)
LStrip(s, cs) == IF s # "" /\ Head(s) \in cs THEN LStrip(Tail(s), cs) ELSE s

RECURSIVE RStrip(_, _)
RStrip(s, cs) ==
    IF s # "" /\ Char(s, Len(s)) \in cs
    THEN RStrip(SubSeq(s, 1, Len(s) - 1), cs)
    ELSE s

\* str.strip(chars); str.strip() is StripChars(s, Whitespace).
StripChars(s, cs) == RStrip(LStrip(s, cs), cs)

Strip(s) == StripChars(s, Whitespace)

\* sep.join(parts)
RECURSIVE Join(_, _)
Join(sep, parts) ==
    IF parts = <<>> THEN ""
    ELSE IF Len(parts) = 1 THEN parts[1]
    ELSE parts[1] \o sep \o Join(sep, Tail(parts))

\* str(n) of an int n >= 0
RECURSIVE IntStr(_)
IntStr(n) == IF n < 10 THEN Char(Digits, n + 1)
             ELSE IntStr(n \div 10) \o Char(Digits, (n % 10) + 1)

\* "%02d" of strftime's %d, %m, %y
TwoDigits(n) == Char(Digits, (n \div 10) + 1) \o Char(Digits, (n % 10) + 1)

-----------------------------------------------------------------------------
(* datetime: dates as proleptic Gregorian ordinals (0001-01-01 is day 1).  *)

IsLeap(y) == y % 4 = 0 /\ (y % 100 # 0 \/ y % 400 = 0)

DaysInMonth(y, m) ==
    IF m = 2 THEN (IF IsLeap(y) THEN 29 ELSE 28)
    ELSE IF m \in {4, 6, 9, 11} THEN 30 ELSE 31

DaysBeforeYear(y) ==
    (y - 1) * 365 + ((y - 1) \div 4) - ((y - 1) \div 100) + ((y - 1) \div 400)

RECURSIVE DaysBeforeMonth(_, _)
DaysBeforeMonth(y, m) ==
    IF m = 1 THEN 0 ELSE DaysBeforeMonth(y, m - 1) + DaysInMonth(y, m - 1)

DaysInYear(y) == IF IsLeap(y) THEN 366 ELSE 365

\* date(y, m, d).toordinal(); datetime.strptime(text, "%Y-%m-%d") of a valid text
Ymd2Ord(ymd) == DaysBeforeYear(ymd.y) + DaysBeforeMonth(ymd.y, ymd.m) + ymd.d

\* the year, month and day of an ordinal
YearOf(n) == CHOOSE y \in (n \div 366)..((n \div 365) + 1) :
                 DaysBeforeYear(y) < n /\ n <= DaysBeforeYear(y) + DaysInYear(y)

Ord2Ymd(n) ==
    LET y == YearOf(n)
        r == n - DaysBeforeYear(y)
        m == CHOOSE k \in 1..12 :
                 DaysBeforeMonth(y, k) < r /\ r <= DaysBeforeMonth(y, k) + DaysInMonth(y, k)
    IN [y |-> y, m |-> m, d |-> r - DaysBeforeMonth(y, m)]

\* datetime.weekday(): Monday is 0, Sunday is 6
Weekday(n) == (n + 6) % 7

WeekdayNames == <<"Monday", "Tuesday", "Wednesday", "Thursday", "Friday",
                  "Saturday", "Sunday">>

\* datetime + timedelta(days=k)
AddDays(n, k) == n + k

-----------------------------------------------------------------------------
(* app/services/helpers.py                                                 *)

get_week_end_from_date_late(date) == AddDays(date, 7 - Weekday(date))

get_week_end_from_date(date) ==
    LET days_to_sunday == 6 - Weekday(date)
    IN AddDays(date, days_to_sunday)

format_date_for_cell(date) ==
    LET ymd == Ord2Ymd(date)
    IN WeekdayNames[Weekday(date) + 1] \o " " \o TwoDigits(ymd.d) \o "/"
           \o TwoDigits(ymd.m) \o "/" \o TwoDigits(ymd.y % 100)

format_folder_date(date) ==
    LET ymd == Ord2Ymd(date)
    IN TwoDigits(ymd.d) \o "-" \o TwoDigits(ymd.m) \o "-" \o TwoDigits(ymd.y % 100)

\* re.sub(r"[^A-Za-z0-9-_\.]+", "_", text): the characters the class keeps
KeptByPattern == Chars(Lowers) \cup Chars(Uppers) \cup Chars(Digits) \cup {"-", "_", "."}

KeptAlnumOnly == Chars(Lowers) \cup Chars(Uppers) \cup Chars(Digits)

RECURSIVE SkipRun(_, _)
SkipRun(s, kept) == IF s # "" /\ Head(s) \notin kept THEN SkipRun(Tail(s), kept) ELSE s

\* re.sub(r"[^<kept>]+", "_", s): each maximal run of other characters becomes "_"
RECURSIVE ReSubRuns(_, _)
ReSubRuns(s, kept) ==
    IF s = "" THEN ""
    ELSE IF Head(s) \in kept THEN Head(s) \o ReSubRuns(Tail(s), kept)
    ELSE "_" \o ReSubRuns(SkipRun(s, kept), kept)

sanitize_filename_alnum(value) ==
    LET cleaned == ReSubRuns(Strip(value), KeptAlnumOnly)
        trimmed == StripChars(cleaned, {"_", ".", "-"})
    IN IF trimmed # "" THEN trimmed ELSE "paperwork"

sanitize_filename(value) ==
    LET cleaned == ReSubRuns(Strip(value), KeptByPattern)
        trimmed == StripChars(cleaned, {"_", ".", "-"})
    IN IF trimmed # "" THEN trimmed ELSE "paperwork"

-----------------------------------------------------------------------------
(* app/services/loadsheet.py                                               *)

\* sum(1 for x in xs if test(x)), given the sequence of the tests' results
RECURSIVE CountTrue(_)
CountTrue(tests) ==
    IF tests = <<>> THEN 0
    ELSE (IF Head(tests) THEN 1 ELSE 0) + CountTrue(Tail(tests))

_generate_load_summary_all_loaded(cars) ==
    LET not_offloaded == Len(cars)
        with_docs == CountTrue([i \in DOMAIN cars |-> Upper(cars[i].docs) = "Y"])
        with_spare == CountTrue([i \in DOMAIN cars |-> Upper(cars[i].spare_keys) = "Y"])
    IN Join(", ", <<IntStr(not_offloaded) \o " CARS LOADED",
                    IF with_docs # 0
                    THEN IntStr(with_docs)
                             \o " CARS HAVE DOCUMENTS AND HAVE BEEN PLACED ON THE PASSENGER SEAT"
                    ELSE "0 CARS HAVE DOCUMENTS",
                    IntStr(with_spare) \o " CARS HAVE SPARE KEYS">>)

_generate_load_summary(cars) ==
    LET not_offloaded == CountTrue([i \in DOMAIN cars |-> Upper(cars[i].offloaded) # "Y"])
        with_docs == CountTrue([i \in DOMAIN cars |-> Upper(cars[i].docs) = "Y"])
        with_spare == CountTrue([i \in DOMAIN cars |-> Upper(cars[i].spare_keys) = "Y"])
    IN Join(", ", <<IntStr(not_offloaded) \o " CARS LOADED",
                    IF with_docs # 0
                    THEN IntStr(with_docs)
                             \o " CARS HAVE DOCUMENTS AND HAVE BEEN PLACED ON THE PASSENGER SEAT"
                    ELSE "0 CARS HAVE DOCUMENTS",
                    IntStr(with_spare) \o " CARS HAVE SPARE KEYS">>)

-----------------------------------------------------------------------------
(* Worksheets, files and settings.                                         *)

\* A worksheet in memory is the sequence of the assignments made to it since
\* load_workbook: ws[cell] = value, or an image anchored at a cell.  `field`
\* names the request field (or derived text) the source line assigns.
SetCell(cell, value, field) ==
    [kind |-> "value", cell |-> cell, value |-> value, field |-> field]

AddImage(cell, path, field) ==
    [kind |-> "image", cell |-> cell, value |-> path, field |-> field]

\* The text the template holds in a cell.
TemplateText(cell) == "<" \o cell \o ">"

\* The text a worksheet holds in a cell: the last value assigned to it, or
\* the template's.
CellText(sheet, cell) ==
    LET hits == {i \in DOMAIN sheet : sheet[i].kind = "value" /\ sheet[i].cell = cell}
    IN IF hits = {} THEN TemplateText(cell)
       ELSE sheet[CHOOSE i \in hits : \A j \in hits : j <= i].value

\* wb.save(path): the file at path now holds the worksheet.
SaveAs(disk, path, sheet) ==
    [q \in DOMAIN disk \cup {path} |-> IF q = path THEN sheet ELSE disk[q]]

Raised(exception) == [status |-> exception]

\* The components of a path text, split at every "/".
RECURSIVE PartsFrom(_, _, _)
PartsFrom(text, start, i) ==
    IF i > Len(text)
    THEN << IF start > Len(text) THEN "" ELSE SubSeq(text, start, Len(text)) >>
    ELSE IF Char(text, i) = "/"
    THEN << IF i = start THEN "" ELSE SubSeq(text, start, i - 1) >>
             \o PartsFrom(text, i + 1, i + 1)
    ELSE PartsFrom(text, start, i + 1)

\* pathlib keeps the components of a path other than "" and ".".
PurePathParts(text) ==
    SelectSeq(PartsFrom(text, 1, 1), LAMBDA part : part \notin {"", "."})

IsAbsolute(text) == text # "" /\ Char(text, 1) = "/"

\* str(folder / name): the week folder of settings.output_dir joined with a
\* name; an absolute name replaces the folder.  Paths are written from
\* settings.output_dir, as the files of the model are.
PathStr(folder, name) ==
    IF IsAbsolute(name) THEN "/" \o Join("/", PurePathParts(name))
    ELSE Join("/", <<folder>> \o PurePathParts(name))

\* A place in the file system: the names leading to it from
\* settings.output_dir (<<>>), through ".." for each step above it, or from
\* the root (<<"/">>).
OutputDirName == "output"

Parent(place) ==
    IF place = <<>> THEN <<"..">>
    ELSE IF place = <<"/">> THEN place
    ELSE IF place[Len(place)] = ".." THEN Append(place, "..")
    ELSE SubSeq(place, 1, Len(place) - 1)

Child(place, name) ==
    IF name = ".." THEN Parent(place)
    ELSE IF place = <<"..">> /\ name = OutputDirName THEN <<>>
    ELSE Append(place, name)

\* The directories the process finds besides the week folders: those above
\* settings.output_dir, the ones create_app_directories makes next to it,
\* the root and /tmp.
IsDirectory(place, week_folders) ==
    \/ \A i \in DOMAIN place : place[i] = ".."
    \/ place \in {<<"..", "templates">>, <<"..", "signatures">>, <<"/">>, <<"/", "tmp">>}
    \/ Len(place) = 1 /\ place[1] \in week_folders

PlaceText(place) ==
    IF place # <<>> /\ place[1] = "/" THEN "/" \o Join("/", Tail(place))
    ELSE Join("/", place)

\* open(path, "wb") as the operating system resolves it: every component
\* before the last has to be a directory that exists (ENOENT otherwise).
RECURSIVE ResolveFrom(_, _, _, _)
ResolveFrom(place, parts, k, week_folders) ==
    IF k = Len(parts)
    THEN [found |-> TRUE, path |-> PlaceText(Child(place, parts[k]))]
    ELSE IF IsDirectory(Child(place, parts[k]), week_folders)
    THEN ResolveFrom(Child(place, parts[k]), parts, k + 1, week_folders)
    ELSE [found |-> FALSE, path |-> ""]

\* The file that folder / name names, when its directory exists.
Resolve(folder, name, week_folders) ==
    ResolveFrom(IF IsAbsolute(name) THEN <<"/">> ELSE <<folder>>,
                PurePathParts(name), 1, week_folders)

\* os.getenv(name, default)
Getenv(name, default) == IF name \in DOMAIN environ THEN environ[name] ELSE default

\* A Settings.pdf_enabled that compares the variable's text as it stands,
\* without lower-casing it.
pdf_enabled_case_sensitive ==
    IF pdf_override # <<>> THEN pdf_override[1]
    ELSE Getenv("PAPERWORK_DISABLE_PDF", "false") # "true"

\* Settings.pdf_enabled
pdf_enabled ==
    IF pdf_override # <<>> THEN pdf_override[1]
    ELSE Lower(Getenv("PAPERWORK_DISABLE_PDF", "false")) # "true"

\* Settings.set_pdf_enabled(enabled)
set_pdf_enabled(enabled) ==
    /\ pdf_override' = <<enabled>>
    /\ history' = Append(history, [op |-> "set_pdf_enabled", enabled |-> enabled])
    /\ UNCHANGED <<fsvars, environ, pc, call, ws, locals, outcome>>

\* Settings.clear_pdf_override()
clear_pdf_override ==
    /\ pdf_override' = <<>>
    /\ history' = Append(history, [op |-> "clear_pdf_override"])
    /\ UNCHANGED <<fsvars, environ, pc, call, ws, locals, outcome>>

\* os.environ[name] = value, done by whoever runs the process.
Setenv(name, value) ==
    /\ environ' = [n \in DOMAIN environ \cup {name} |->
                       IF n = name THEN value ELSE environ[n]]
    /\ history' = Append(history, [op |-> "setenv", name |-> name, value |-> value])
    /\ UNCHANGED <<fsvars, pdf_override, pc, call, ws, locals, outcome>>

\* del os.environ[name]
Delenv(name) ==
    /\ name \in DOMAIN environ
    /\ environ' = [n \in DOMAIN environ \ {name} |-> environ[n]]
    /\ history' = Append(history, [op |-> "delenv", name |-> name])
    /\ UNCHANGED <<fsvars, pdf_override, pc, call, ws, locals, outcome>>

\* What running LibreOffice can come to.
LibreOfficeRuns == {"not_installed", "timeout", "nonzero_exit", "no_pdf", "converted"}

\* convert_excel_to_pdf(excel_path, output_dir), given how the LibreOffice run
\* ends; stem is the workbook's file name without ".xlsx".  The result is the
\* returned Optional path and the PDF files then on disk; disk holds the
\* workbooks saved so far.
convert_excel_to_pdf(disk, output_dir, stem, run) ==
    LET excel_path == output_dir \o "/" \o stem \o ".xlsx"
        pdf_path == output_dir \o "/" \o stem \o ".pdf"
    IN IF ~pdf_enabled THEN [pdf_path |-> <<>>, pdfs |-> pdfs]
       ELSE IF excel_path \notin DOMAIN disk THEN [pdf_path |-> <<>>, pdfs |-> pdfs]
       ELSE IF run \in {"not_installed", "timeout", "nonzero_exit"}
            THEN [pdf_path |-> <<>>, pdfs |-> pdfs]
       ELSE LET written == IF run = "converted" THEN pdfs \cup {pdf_path} ELSE pdfs
            IN [pdf_path |-> IF pdf_path \in written THEN <<pdf_path>> ELSE <<>>,
                pdfs |-> written]

\* LibreOffice runs only when the request asks for a PDF.
LibreOfficeRunsOf(request) ==
    IF "include_pdf" \in DOMAIN request /\ request.include_pdf
    THEN LibreOfficeRuns ELSE {"not_run"}

\* The end of both generators, from the line after wb.save on: the request's
\* include_pdf attribute is read first, and a request object without that
\* attribute raises AttributeError there.
FinishGenerate(request, disk, folder, stem, week_end, label, run) ==
    IF "include_pdf" \notin DOMAIN request
    THEN [outcome |-> Raised("AttributeError"), pdfs |-> pdfs]
    ELSE LET excel_path == folder \o "/" \o stem \o ".xlsx"
             pdf_result == IF request.include_pdf
                           THEN convert_excel_to_pdf(disk, folder, stem, run)
                           ELSE [pdf_path |-> <<>>, pdfs |-> pdfs]
             message ==
                 IF request.include_pdf /\ pdf_result.pdf_path # <<>>
                 THEN label \o " generated successfully"
                 ELSE IF request.include_pdf
                 THEN label \o " generated (Excel only - PDF conversion failed or disabled)"
                 ELSE label \o " generated (Excel only - PDF conversion skipped per request)"
         IN [outcome |-> [status |-> "returned",
                          excel_path |-> excel_path,
                          pdf_path |-> pdf_result.pdf_path,
                          message |-> message,
                          week_folder |-> format_folder_date(week_end)],
             pdfs |-> pdf_result.pdfs]

\* The return of a generator: the response, and the PDF files on disk.
ReturnGenerated(finish) ==
    /\ outcome' = finish.outcome
    /\ pdfs' = finish.pdfs

-----------------------------------------------------------------------------
(* app/services/loadsheet.py: generate_loadsheet                           *)

CAR_CELL_MAP == <<
    [make_model |-> "B11", reg |-> "B13", offloaded |-> "E10", docs |-> "G10", spare_keys |-> "I10", notes |-> "C11"],
    [make_model |-> "B15", reg |-> "B17", offloaded |-> "E14", docs |-> "G14", spare_keys |-> "I14", notes |-> "C15"],
    [make_model |-> "B19", reg |-> "B21", offloaded |-> "E18", docs |-> "G18", spare_keys |-> "I18", notes |-> "C19"],
    [make_model |-> "B23", reg |-> "B25", offloaded |-> "E22", docs |-> "G22", spare_keys |-> "I22", notes |-> "C23"],
    [make_model |-> "B27", reg |-> "B29", offloaded |-> "E26", docs |-> "G26", spare_keys |-> "I26", notes |-> "C27"],
    [make_model |-> "B31", reg |-> "B33", offloaded |-> "E30", docs |-> "G30", spare_keys |-> "I30", notes |-> "C31"],
    [make_model |-> "B35", reg |-> "B37", offloaded |-> "E34", docs |-> "G34", spare_keys |-> "I34", notes |-> "C35"],
    [make_model |-> "B39", reg |-> "B41", offloaded |-> "E38", docs |-> "G38", spare_keys |-> "I38", notes |-> "C39"] >>

\* The keys of a CAR_CELL_MAP entry, in the order of the dict.
CarKeys == <<"make_model", "reg", "offloaded", "docs", "spare_keys", "notes">>

\* The attribute of CarModel written to the cell of a key.
CarAttr(car, key) == IF key = "notes" THEN car.car_notes ELSE car[key]

SlotField(idx, key) == "cars[" \o IntStr(idx) \o "]." \o key

\* The body of `for idx, mapping in enumerate(CAR_CELL_MAP)` for one idx (from 0).
CarSlotWrites(cars, idx) ==
    LET mapping == CAR_CELL_MAP[idx + 1]
    IN IF idx < Len(cars)
       THEN [k \in 1..Len(CarKeys) |->
                SetCell(mapping[CarKeys[k]], Upper(CarAttr(cars[idx + 1], CarKeys[k])),
                        SlotField(idx, CarKeys[k]))]
       ELSE [k \in 1..Len(CarKeys) |->
                SetCell(mapping[CarKeys[k]], "", SlotField(idx, CarKeys[k]))]

RECURSIVE CarWritesFrom(_, _)
CarWritesFrom(cars, idx) ==
    IF idx >= Len(CAR_CELL_MAP) THEN <<>>
    ELSE CarSlotWrites(cars, idx) \o CarWritesFrom(cars, idx + 1)

\* [car.car_notes.upper() for car in cars if car.car_notes.strip()]
RECURSIVE CarNotes(_)
CarNotes(cars) ==
    IF cars = <<>> THEN <<>>
    ELSE (IF Strip(Head(cars).car_notes) # "" THEN <<Upper(Head(cars).car_notes)>> ELSE <<>>)
             \o CarNotes(Tail(cars))

NotesBlock(request) ==
    LET summary == _generate_load_summary(request.cars)
        notes == <<summary>>
                     \o (IF Strip(request.load_notes) # ""
                         THEN <<Strip(request.load_notes)>> ELSE <<>>)
                     \o CarNotes(request.cars)
    IN Upper(Join("\n", notes))

\* select_signature and add_signature: the image is embedded when the requested
\* signature resolves to a file and openpyxl accepts it.
EmbedChoices(requested) == IF requested = "" THEN {FALSE} ELSE BOOLEAN

SignatureWrites(requested, cell, field, embedded) ==
    IF requested # "" /\ embedded THEN <<AddImage(cell, requested, field)>> ELSE <<>>

\* The assignments of generate_loadsheet between load_workbook and wb.save.
LoadsheetWrites(request, sig1_embedded, sig2_embedded) ==
    LET load_date == Ymd2Ord(request.load_date)
    IN << SetCell("C6", format_date_for_cell(load_date), "load_date"),
          SetCell("G6", request.load_number, "load_number"),
          SetCell("C7", Upper(request.fleet_reg), "fleet_reg"),
          SetCell("B9", Upper(request.collection_point), "collection_point"),
          SetCell("F9", Upper(request.delivery_point), "delivery_point"),
          SetCell("C46", format_date_for_cell(load_date), "signed_date_1"),
          SetCell("H46", format_date_for_cell(load_date), "signed_date_2") >>
       \o CarWritesFrom(request.cars, 0)
       \o << SetCell("C39", NotesBlock(request), "notes_block") >>
       \o SignatureWrites(request.sig1, "C42", "sig1", sig1_embedded)
       \o SignatureWrites(request.sig2, "H42", "sig2", sig2_embedded)

CarsOverCapacity_off_by_one(request) == Len(request.cars) > Len(CAR_CELL_MAP) + 1

\* len(request.cars) > len(CAR_CELL_MAP)
CarsOverCapacity(request) == Len(request.cars) > Len(CAR_CELL_MAP)

\* A generator that goes on without looking for its template.
TemplateMissing_unchecked(name) == FALSE

\* not settings.loadsheet_template.exists(), and the same for the timesheet
TemplateMissing(name) == name \notin templates

\* A file name made of the collection point alone.
LoadsheetFilename_without_number(request) == sanitize_filename(request.collection_point)

\* Lines 69-70: the file name of the workbook, without its suffix.
LoadsheetFilename(request) ==
    request.load_number \o "_" \o sanitize_filename(request.collection_point)

\* Lines 65-131 once the workbook is populated: wb.save(excel_path) opens the
\* file, which fails when its directory is not there, and the call finishes.
SaveLoadsheet(request, folder, filename, week_end, sheet, target, run) ==
    /\ folders' = folders \cup {folder}
    /\ ws' = sheet
    /\ locals' = [excel_path |-> PathStr(folder, filename \o ".xlsx")]
    /\ IF ~target.found
       THEN /\ outcome' = Raised("FileNotFoundError")
            /\ UNCHANGED <<files, pdfs>>
       ELSE /\ files' = SaveAs(files, target.path, sheet)
            /\ ReturnGenerated(FinishGenerate(request, SaveAs(files, target.path, sheet),
                                              folder, filename, week_end, "Loadsheet", run))

\* generate_loadsheet(request): the whole call.
GenerateLoadsheet(request, sig1_embedded, sig2_embedded, run) ==
    /\ pc = "idle"
    /\ pc' = "done"
    /\ call' = [fn |-> "generate_loadsheet", request |-> request]
    /\ UNCHANGED <<templates, merged_cells, cfgvars>>
    /\ IF TemplateMissing("loadsheet.xlsx")
       THEN /\ outcome' = Raised("FileNotFoundError")
            /\ UNCHANGED <<folders, files, pdfs, ws, locals>>
       ELSE IF CarsOverCapacity(request)
       THEN /\ outcome' = Raised("ValueError")
            /\ UNCHANGED <<folders, files, pdfs, ws, locals>>
       ELSE LET load_date == Ymd2Ord(request.load_date)
                week_end == get_week_end_from_date(load_date)
                folder == format_folder_date(week_end)
            IN SaveLoadsheet(request, folder, LoadsheetFilename(request), week_end,
                             LoadsheetWrites(request, sig1_embedded, sig2_embedded),
                             Resolve(folder, LoadsheetFilename(request) \o ".xlsx",
                                     folders \cup {folder}),
                             run)

-----------------------------------------------------------------------------
(* Python values of a dict and of LoadModel.car_count: a str, an int or    *)
(* None, each carried with the text str() gives for it.                    *)

PyStr(s) == [t |-> "str", v |-> s]
PyInt(n) == [t |-> "int", v |-> IntStr(n)]
PyNone == [t |-> "none", v |-> "None"]

\* bool(x)
Truthy(x) == (x.t = "str" /\ x.v # "") \/ (x.t = "int" /\ x.v # "0")

\* dict.get(key, default)
DictGet(items, key, default) == IF key \in DOMAIN items THEN items[key] ELSE default

\* x or y
PyOr(x, y) == IF Truthy(x) THEN x ELSE y

\* (text or "") of an Optional[str]
OrEmpty(text) == IF text = <<>> THEN "" ELSE text[1]

\* A text made of decimal digits only (possibly empty).
IsDigits(s) == \A i \in 1..Len(s) : Char(s, i) \in Chars(Digits)

\* int of a text of decimal digits
RECURSIVE DigitsValue(_)
DigitsValue(s) ==
    IF s = "" THEN 0
    ELSE DigitsValue(SubSeq(s, 1, Len(s) - 1)) * 10 + (IndexIn(Char(s, Len(s)), Digits) - 1)

\* float(text) for the plain decimal notations ("9", "7.5", ".5", "7.", an
\* optional sign, whitespace around): <<>> when float raises ValueError, else
\* <<h>> with h the number in hundredths.  Texts with more than two fraction
\* digits, an exponent, underscores, "inf" or "nan" are not among the inputs.
float(text) ==
    LET v == Strip(text)
        signed == v # "" /\ Head(v) \in {"+", "-"}
        body == IF signed THEN Tail(v) ELSE v
        dots == {i \in 1..Len(body) : Char(body, i) = "."}
        dot == IF dots = {} THEN Len(body) + 1 ELSE CHOOSE i \in dots : TRUE
        whole == SubSeq(body, 1, dot - 1)
        frac == SubSeq(body, dot + 1, Len(body))
        parses == /\ Cardinality(dots) <= 1
                  /\ IsDigits(whole) /\ IsDigits(frac)
                  /\ whole \o frac # ""
                  /\ Len(frac) <= 2
        magnitude == DigitsValue(whole) * 100 + DigitsValue(SubSeq(frac \o "00", 1, 2))
    IN IF ~parses THEN <<>>
       ELSE IF signed /\ Head(v) = "-" THEN << -magnitude >> ELSE << magnitude >>

\* str(x) of a float x given in hundredths: the shortest decimal that reads
\* back as x, with at least one fraction digit ("16.5", "16.0", "0.25").
FloatStr(h) ==
    LET a == IF h < 0 THEN -h ELSE h
        f == a % 100
    IN (IF h < 0 THEN "-" ELSE "") \o IntStr(a \div 100) \o "."
           \o (IF f % 10 = 0 THEN IntStr(f \div 10) ELSE TwoDigits(f))

-----------------------------------------------------------------------------
(* app/schemas.py: the validators of TimesheetRequest.fleet_reg.  The      *)
(* value sent is a str or a list of str.                                   *)

PyList(items) == [t |-> "list", v |-> items]

\* normalize_fleet_reg(v): a str becomes the list of that one str.
normalize_fleet_reg(v) == IF v.t = "str" THEN <<v.v>> ELSE v.v

\* uppercase_fleet_reg(v): the items that are not blank, upper-cased.
uppercase_fleet_reg(v) ==
    LET kept == SelectSeq(v, LAMBDA item : Strip(item) # "")
    IN [i \in DOMAIN kept |-> Upper(kept[i])]

-----------------------------------------------------------------------------
(* app/services/timesheet.py                                               *)

DAY_ORDER == <<"monday", "tuesday", "wednesday", "thursday", "friday", "saturday", "sunday">>

\* A table whose rows for Tuesday start on Monday's third row.
DAY_MAPPINGS_tuesday_early ==
    [monday |-> [base_row |-> 8, time_row |-> 8],
     tuesday |-> [base_row |-> 10, time_row |-> 10],
     wednesday |-> [base_row |-> 14, time_row |-> 14],
     thursday |-> [base_row |-> 17, time_row |-> 17],
     friday |-> [base_row |-> 20, time_row |-> 20],
     saturday |-> [base_row |-> 23, time_row |-> 23],
     sunday |-> [base_row |-> 26, time_row |-> 26]]

DAY_MAPPINGS ==
    [monday |-> [base_row |-> 8, time_row |-> 8],
     tuesday |-> [base_row |-> 11, time_row |-> 11],
     wednesday |-> [base_row |-> 14, time_row |-> 14],
     thursday |-> [base_row |-> 17, time_row |-> 17],
     friday |-> [base_row |-> 20, time_row |-> 20],
     saturday |-> [base_row |-> 23, time_row |-> 23],
     sunday |-> [base_row |-> 26, time_row |-> 26]]

\* The loop of _calculate_total_hours stopping at the first text float rejects.
RECURSIVE TotalHoursUntilBad(_, _, _)
TotalHoursUntilBad(days, i, total) ==
    IF i > Len(days) THEN total
    ELSE IF OrEmpty(days[i].total_hours) = "" THEN TotalHoursUntilBad(days, i + 1, total)
    ELSE LET parsed == float(Strip(days[i].total_hours[1]))
         IN IF parsed = <<>> THEN total
            ELSE TotalHoursUntilBad(days, i + 1, total + parsed[1])

_calculate_total_hours_aborting(days) == TotalHoursUntilBad(days, 1, 0)

\* The loop of _calculate_total_hours from entry i on, total being the sum so far.
RECURSIVE TotalHoursFrom(_, _, _)
TotalHoursFrom(days, i, total) ==
    IF i > Len(days) THEN total
    ELSE IF OrEmpty(days[i].total_hours) = "" THEN TotalHoursFrom(days, i + 1, total)
    ELSE LET parsed == float(Strip(days[i].total_hours[1]))
         IN IF parsed = <<>> THEN TotalHoursFrom(days, i + 1, total)
            ELSE TotalHoursFrom(days, i + 1, total + parsed[1])

\* _calculate_total_hours(days), in hundredths of an hour.  The float sum is
\* exact for texts that denote multiples of a quarter, as the inputs do.
_calculate_total_hours(days) == TotalHoursFrom(days, 1, 0)

_get_day_date_off_by_one(week_end, day_name) ==
    LET at == {i \in DOMAIN DAY_ORDER : DAY_ORDER[i] = day_name}
        index == IF at # {} THEN (CHOOSE i \in at : TRUE) - 1 ELSE 0
    IN AddDays(week_end, -(7 - index))

\* _get_day_date(week_end, day_name)
_get_day_date(week_end, day_name) ==
    LET at == {i \in DOMAIN DAY_ORDER : DAY_ORDER[i] = day_name}
        index == IF at # {} THEN (CHOOSE i \in at : TRUE) - 1 ELSE 0
    IN AddDays(week_end, -(6 - index))

\* day_date.strftime("%d/%m/%y")
format_overflow_date(date) ==
    LET ymd == Ord2Ymd(date)
    IN TwoDigits(ymd.d) \o "/" \o TwoDigits(ymd.m) \o "/" \o TwoDigits(ymd.y % 100)

\* week_end.strftime('%Y-%m-%d'), for years of four digits
format_iso_date(date) ==
    LET ymd == Ord2Ymd(date)
    IN IntStr(ymd.y) \o "-" \o TwoDigits(ymd.m) \o "-" \o TwoDigits(ymd.d)

\* _format_load(load)
_format_load(load) ==
    [customer |-> Upper(load.customer),
     car_count |-> load.car_count.v,
     collection |-> Upper(load.collection),
     delivery |-> Upper(load.delivery),
     note |-> IF load.note # "" THEN Upper(load.note) ELSE ""]

\* The load_data built from a dict load (lines 144-150 and 161-167).
DictLoadData(items) ==
    [customer |-> Upper(DictGet(items, "customer", PyStr("")).v),
     car_count |-> DictGet(items, "car_count", PyStr("")).v,
     collection |-> Upper(DictGet(items, "collection", PyStr("")).v),
     delivery |-> Upper(DictGet(items, "delivery", PyStr("")).v),
     note |-> Upper(PyOr(DictGet(items, "note", PyStr("")),
                         DictGet(items, "custom_note", PyStr(""))).v)]

\* _write_load_row(ws, row, load_data); field names the load written.
_write_load_row(row, load_data, field) ==
    << SetCell("C" \o IntStr(row), load_data.customer, field \o ".customer"),
       SetCell("D" \o IntStr(row), load_data.car_count, field \o ".car_count"),
       SetCell("E" \o IntStr(row), load_data.collection, field \o ".collection"),
       SetCell("F" \o IntStr(row), load_data.delivery, field \o ".delivery") >>
    \o (IF load_data.note # ""
        THEN << SetCell("G" \o IntStr(row), load_data.note, field \o ".note") >>
        ELSE <<>>)

\* The row of the overflow region the first overflow load is written to.
FirstOverflowRow == 29

\* The texts that mark a day as not worked.
DayMarkers == {"SICK", "HOLIDAY"}

StrippedTimes(day_data) ==
    [start_time |-> Strip(OrEmpty(day_data.start_time)),
     finish_time |-> Strip(OrEmpty(day_data.finish_time)),
     total_hours |-> Strip(OrEmpty(day_data.total_hours))]

SickHolidayOverride_keeping_hours(given) ==
    IF Upper(given.start_time) \in DayMarkers \/ Upper(given.finish_time) \in DayMarkers
    THEN [start_time |-> IF given.start_time # "" THEN Upper(given.start_time)
                         ELSE Upper(given.finish_time),
          finish_time |-> IF given.start_time # "" THEN Upper(given.start_time)
                          ELSE Upper(given.finish_time),
          total_hours |-> given.total_hours]
    ELSE given

\* Lines 123-127: the sick/holiday override of the three stripped texts; the
\* marker is the upper-cased start_time unless that is empty.
SickHolidayOverride(given) ==
    IF Upper(given.start_time) \in DayMarkers \/ Upper(given.finish_time) \in DayMarkers
    THEN [start_time |-> IF given.start_time # "" THEN Upper(given.start_time)
                         ELSE Upper(given.finish_time),
          finish_time |-> IF given.start_time # "" THEN Upper(given.start_time)
                          ELSE Upper(given.finish_time),
          total_hours |-> "0"]
    ELSE given

\* The three time texts of a day as they are written (lines 119-127).
MarkedTimes(day_data) == SickHolidayOverride(StrippedTimes(day_data))

\* The request field an entry of request.days is, and a load of it (from 0).
DayField(day_idx) == "days[" \o IntStr(day_idx) \o "]"

LoadField(day_idx, load_idx) == DayField(day_idx) \o ".loads[" \o IntStr(load_idx) \o "]"

\* The message looked up under a key no entry has.
MessageOf_misspelt(load) ==
    IF load.type = "dict" THEN DictGet(load.items, "msg", PyNone) ELSE PyNone

\* load.get("message") of a dict load; a LoadModel has none.
MessageOf(load) ==
    IF load.type = "dict" THEN DictGet(load.items, "message", PyNone) ELSE PyNone

\* `for load_idx, load in enumerate(loads[:3])` from load_idx on: the
\* assignments made and the exception that ends them, if any.
RECURSIVE FixedRowsFrom(_, _, _, _)
FixedRowsFrom(loads, load_idx, base_row, day_idx) ==
    IF load_idx >= Len(loads) \/ load_idx >= 3
    THEN [writes |-> <<>>, raised |-> <<>>]
    ELSE LET load == loads[load_idx + 1]
             row == base_row + load_idx
             field == LoadField(day_idx, load_idx)
             rest == FixedRowsFrom(loads, load_idx + 1, base_row, day_idx)
         IN IF Truthy(MessageOf(load))
            THEN IF MessageOf(load).t # "str"
                 THEN [writes |-> <<>>, raised |-> <<"AttributeError">>]
                 ELSE [writes |-> << SetCell("C" \o IntStr(row), Upper(MessageOf(load).v),
                                             field \o ".message") >> \o rest.writes,
                       raised |-> rest.raised]
            ELSE LET here ==
                         IF load.type = "LoadModel"
                         THEN _write_load_row(row, _format_load(load), field)
                         ELSE IF "customer" \in DOMAIN load.items
                                   \/ "collection" \in DOMAIN load.items
                         THEN _write_load_row(row, DictLoadData(load.items), field)
                         ELSE <<>>
                 IN [writes |-> here \o rest.writes, raised |-> rest.raised]

\* `for load in loads[3:]` from the load at position pos (from 1) on: the
\* assignments made and the overflow_row left.
RECURSIVE OverflowFrom(_, _, _, _, _)
OverflowFrom(loads, pos, overflow_row, day_date, day_idx) ==
    IF pos > Len(loads) THEN [writes |-> <<>>, overflow_row |-> overflow_row]
    ELSE LET load == loads[pos]
             field == LoadField(day_idx, pos - 1)
         IN IF Truthy(MessageOf(load))
            THEN OverflowFrom(loads, pos + 1, overflow_row, day_date, day_idx)
            ELSE LET load_data == IF load.type = "LoadModel" THEN _format_load(load)
                                  ELSE DictLoadData(load.items)
                     rest == OverflowFrom(loads, pos + 1, overflow_row + 1, day_date, day_idx)
                 IN [writes |-> << SetCell("B" \o IntStr(overflow_row),
                                           format_overflow_date(day_date),
                                           field \o ".date") >>
                                \o _write_load_row(overflow_row, load_data, field)
                                \o rest.writes,
                     overflow_row |-> rest.overflow_row]

\* Lines 129-131: the time cells of a day.
TimeCells(times, time_row, day_idx) ==
    << SetCell("H" \o IntStr(time_row), times.start_time, DayField(day_idx) \o ".start_time"),
       SetCell("I" \o IntStr(time_row), times.finish_time, DayField(day_idx) \o ".finish_time"),
       SetCell("J" \o IntStr(time_row), times.total_hours, DayField(day_idx) \o ".total_hours") >>

\* The assignments of a day up to its fixed rows, followed by those of its
\* overflow loop.
WithOverflow(writes, over) ==
    [writes |-> writes \o over.writes, overflow_row |-> over.overflow_row, raised |-> <<>>]

\* Lines 133-173: a day's loads, after its time cells; fixed is what the loop
\* over loads[:3] did.
DayLoadRows(time_cells, fixed, loads, day_name, day_idx, week_end, overflow_row) ==
    IF fixed.raised # <<>>
    THEN [writes |-> time_cells \o fixed.writes, overflow_row |-> overflow_row,
          raised |-> fixed.raised]
    ELSE IF Len(loads) > 3
    THEN WithOverflow(time_cells \o fixed.writes,
                      OverflowFrom(loads, 4, overflow_row,
                                   _get_day_date(week_end, day_name), day_idx))
    ELSE [writes |-> time_cells \o fixed.writes, overflow_row |-> overflow_row,
          raised |-> <<>>]

\* The body of `for day_data in request.days` for the entry at day_idx (from 0).
DayBody(day_data, day_idx, week_end, overflow_row) ==
    IF Lower(day_data.day) \notin DOMAIN DAY_MAPPINGS
    THEN [writes |-> <<>>, overflow_row |-> overflow_row, raised |-> <<>>]
    ELSE DayLoadRows(TimeCells(MarkedTimes(day_data),
                               DAY_MAPPINGS[Lower(day_data.day)].time_row, day_idx),
                     FixedRowsFrom(day_data.loads, 0,
                                   DAY_MAPPINGS[Lower(day_data.day)].base_row, day_idx),
                     day_data.loads, Lower(day_data.day), day_idx, week_end, overflow_row)

\* The assignments of a day followed by those of the days after it.
JoinDays(body, rest) ==
    [writes |-> body.writes \o rest.writes, overflow_row |-> rest.overflow_row,
     raised |-> rest.raised]

RECURSIVE DaysFrom(_, _, _, _)

\* A loop whose counter starts again at the first overflow row for each day.
DaysAfter_resetting(body, days, pos, week_end) ==
    IF body.raised # <<>> THEN body
    ELSE JoinDays(body, DaysFrom(days, pos + 1, week_end, FirstOverflowRow))

\* The loop over request.days after the body of the entry at position pos:
\* an exception ends it.
DaysAfter(body, days, pos, week_end) ==
    IF body.raised # <<>> THEN body
    ELSE JoinDays(body, DaysFrom(days, pos + 1, week_end, body.overflow_row))

\* `for day_data in request.days` from the entry at position pos (from 1) on.
DaysFrom(days, pos, week_end, overflow_row) ==
    IF pos > Len(days) THEN [writes |-> <<>>, overflow_row |-> overflow_row, raised |-> <<>>]
    ELSE DaysAfter(DayBody(days[pos], pos - 1, week_end, overflow_row), days, pos, week_end)

\* openpyxl's coordinate of a cell.
Coordinate(row, column) == Char(Uppers, column) \o IntStr(row)

InRange(range, row, column) ==
    /\ range.min_row <= row /\ row <= range.max_row
    /\ range.min_col <= column /\ column <= range.max_col

\* The driver's name assigned to K3 whatever the merged ranges are.
DriverCell_unmerged == "K3"

\* The cell the driver's name is assigned to (lines 95-105): K3, or the top
\* left cell of the merged range K3 lies in when K3 is not that cell itself.
DriverCell ==
    LET holding == {range \in merged_cells : InRange(range, 3, 11)}
        is_merged_cell == \E range \in holding : ~(range.min_row = 3 /\ range.min_col = 11)
    IN IF is_merged_cell
       THEN LET merged_range == CHOOSE range \in holding : TRUE
            IN Coordinate(merged_range.min_row, merged_range.min_col)
       ELSE "K3"

\* A list that keeps every item, repeated or not.
FromKeys_keeping_repeats(items) == items

\* list(dict.fromkeys(items)): the items without repetitions, first come first.
RECURSIVE FromKeys(_)
FromKeys(items) ==
    IF items = <<>> THEN <<>>
    ELSE LET before == FromKeys(SubSeq(items, 1, Len(items) - 1))
             last == items[Len(items)]
         IN IF \E i \in DOMAIN before : before[i] = last THEN before
            ELSE Append(before, last)

\* Lines 94-109: the header cells.
TimesheetHeaderWrites(request, week_end) ==
    << SetCell("E5", format_date_for_cell(week_end), "week_ending"),
       SetCell(DriverCell, Upper(request.driver), "driver"),
       SetCell("K5", Join(", ", FromKeys([i \in DOMAIN request.fleet_reg |->
                                              Upper(request.fleet_reg[i])])), "fleet_reg"),
       SetCell("H4", request.start_mileage, "start_mileage"),
       SetCell("H5", request.end_mileage, "end_mileage") >>

\* Lines 175-180: the weekly total.
WeeklyTotalWrites(request) ==
    LET total_hours_value == IF OrEmpty(request.weekly_total_hours) # ""
                             THEN Strip(request.weekly_total_hours[1]) ELSE ""
    IN IF total_hours_value # ""
       THEN << SetCell("J29", total_hours_value, "weekly_total_hours") >>
       ELSE << SetCell("J29", FloatStr(_calculate_total_hours(request.days)),
                       "weekly_total_hours") >>

\* Lines 182-202: wb.save(excel_path) and what follows it.
SaveTimesheet(request, week_end, folder, filename, sheet, run) ==
    /\ ws' = sheet
    /\ files' = SaveAs(files, folder \o "/" \o filename \o ".xlsx", sheet)
    /\ ReturnGenerated(FinishGenerate(request,
                                      SaveAs(files, folder \o "/" \o filename \o ".xlsx", sheet),
                                      folder, filename, week_end, "Timesheet", run))

\* Lines 86-202: the folder is made, the cells are assigned (loop is what the
\* loop over request.days did) and, unless an exception ended the loop, the
\* workbook is saved.
PopulateTimesheet(request, week_end, folder, filename, loop, run) ==
    /\ folders' = folders \cup {folder}
    /\ locals' = [excel_path |-> folder \o "/" \o filename \o ".xlsx",
                  overflow_row |-> loop.overflow_row]
    /\ IF loop.raised # <<>>
       THEN /\ ws' = TimesheetHeaderWrites(request, week_end) \o loop.writes
            /\ outcome' = Raised(loop.raised[1])
            /\ UNCHANGED <<files, pdfs>>
       ELSE SaveTimesheet(request, week_end, folder, filename,
                          TimesheetHeaderWrites(request, week_end) \o loop.writes
                              \o WeeklyTotalWrites(request),
                          run)

\* Lines 84-85: the Sunday the request's week ends on.
WeekEndOf(request) == get_week_end_from_date(Ymd2Ord(request.week_ending))

\* generate_timesheet(request): the whole call.
GenerateTimesheet(request, run) ==
    /\ pc = "idle"
    /\ pc' = "done"
    /\ call' = [fn |-> "generate_timesheet", request |-> request]
    /\ UNCHANGED <<templates, merged_cells, cfgvars>>
    /\ IF TemplateMissing("timesheet.xlsx")
       THEN /\ outcome' = Raised("FileNotFoundError")
            /\ UNCHANGED <<folders, files, pdfs, ws, locals>>
       ELSE PopulateTimesheet(request, WeekEndOf(request),
                              format_folder_date(WeekEndOf(request)),
                              "timesheet_" \o format_iso_date(WeekEndOf(request)) \o "_"
                                  \o sanitize_filename(request.driver),
                              DaysFrom(request.days, 1, WeekEndOf(request), FirstOverflowRow),
                              run)

-----------------------------------------------------------------------------
(* The state before any call.                                              *)

NoCall == [fn |-> "none"]
NoOutcome == [status |-> "none"]
NoLocals == [excel_path |-> ""]

\* The first calendar day of the dated inputs: Monday 2023-12-18, so that
\* the range crosses a year end and the leap day of 2024.
FirstDay == [y |-> 2023, m |-> 12, d |-> 18]

\* The week of the repository's tests, 2025-05-12 .. 2025-05-18.
TestWeekMonday == [y |-> 2025, m |-> 5, d |-> 12]

DateRange == {AddDays(Ymd2Ord(FirstDay), k) : k \in 0..(MaxDays - 1)}
                 \cup {AddDays(Ymd2Ord(TestWeekMonday), k) : k \in 0..6}

InitIdle ==
    /\ pc = "idle"
    /\ call = NoCall
    /\ ws = <<>>
    /\ locals = NoLocals
    /\ outcome = NoOutcome
    /\ history = <<>>

InitDisk ==
    /\ templates = {"loadsheet.xlsx", "timesheet.xlsx"}
    /\ merged_cells = {}
    /\ folders = {}
    /\ files = <<>>
    /\ pdfs = {}

InitSettings ==
    /\ pdf_override = <<>>
    /\ environ = <<>>

-----------------------------------------------------------------------------
(* app/main.py: the HTTP application                                       *)

\* The routes of app: the five of main.py and the three FastAPI adds for
\* docs_url, redoc_url and the OpenAPI schema.
Routes ==
    {<<"GET", "/">>, <<"GET", "/api/health">>,
     <<"POST", "/api/loadsheet/generate">>, <<"POST", "/api/timesheet/generate">>,
     <<"GET", "/api/signatures">>,
     <<"GET", "/docs">>, <<"GET", "/redoc">>, <<"GET", "/openapi.json">>}

\* A response: the status code and, with status 200, the content returned.
HttpResponse(status_code, content) == [status_code |-> status_code, content |-> content]

\* One exchange over HTTP, as the history keeps it.
Exchange(method, path, request, response) ==
    [op |-> "http", method |-> method, path |-> path, request |-> request,
     status_code |-> response.status_code, content |-> response.content]

\* Lines 84-97 and 107-120: what the endpoint makes of the generator's
\* result, the except clauses in their order.
EndpointResponse(generated) ==
    IF generated.status = "returned" THEN HttpResponse(200, <<generated>>)
    ELSE IF generated.status = "FileNotFoundError" THEN HttpResponse(404, <<>>)
    ELSE IF generated.status = "ValueError" THEN HttpResponse(400, <<>>)
    ELSE HttpResponse(500, <<>>)

\* POST /api/loadsheet/generate
create_loadsheet(request, sig1_embedded, sig2_embedded, run) ==
    /\ GenerateLoadsheet(request, sig1_embedded, sig2_embedded, run)
    /\ history' = Append(history, Exchange("POST", "/api/loadsheet/generate", request,
                                           EndpointResponse(outcome')))

\* POST /api/timesheet/generate
create_timesheet(request, run) ==
    /\ GenerateTimesheet(request, run)
    /\ history' = Append(history, Exchange("POST", "/api/timesheet/generate", request,
                                           EndpointResponse(outcome')))

\* A request no route matches: the router answers 405 when the path has a
\* route for another method and 404 when it has none.
NotRouted(method, path) ==
    /\ pc = "idle"
    /\ <<method, path>> \notin Routes
    /\ pc' = "done"
    /\ call' = [fn |-> "router", method |-> method, path |-> path]
    /\ history' = Append(history,
                         Exchange(method, path, <<>>,
                                  IF \E other \in {"GET", "POST"} : <<other, path>> \in Routes
                                  THEN HttpResponse(405, <<>>)
                                  ELSE HttpResponse(404, <<>>)))
    /\ UNCHANGED <<fsvars, cfgvars, ws, locals, outcome>>

\* The response is sent and the event loop takes the next request.
AwaitRequest ==
    /\ pc = "done"
    /\ pc' = "idle"
    /\ UNCHANGED <<fsvars, cfgvars, call, ws, locals, outcome, history>>

\* A template file is put in place under settings.templates_dir.
PutTemplate(name) ==
    /\ pc = "idle"
    /\ name \notin templates
    /\ templates' = templates \cup {name}
    /\ UNCHANGED <<merged_cells, folders, files, pdfs, cfgvars, pc, call, ws, locals, outcome>>

-----------------------------------------------------------------------------
(* Calls of the pure helpers: the call is given, the action runs it.       *)

Returned(value) == [status |-> "returned", value |-> value]

\* get_week_end_from_date(date)
CallWeekEnd ==
    /\ pc = "called"
    /\ call.fn = "get_week_end_from_date"
    /\ outcome' = Returned(get_week_end_from_date(call.arg))
    /\ pc' = "done"
    /\ UNCHANGED <<fsvars, cfgvars, call, ws, locals, history>>

\* The texts handed to sanitize_filename: every text of at most MaxNameLen
\* characters over a small alphabet, and the collection point of the tests.
NameAlphabet == {"A", "b", "7", " ", "!", "-", "_", "."}

RECURSIVE TextsUpTo(_, _)
TextsUpTo(alphabet, n) ==
    IF n = 0 THEN {""}
    ELSE LET shorter == TextsUpTo(alphabet, n - 1)
         IN shorter \cup {c \o t : c \in alphabet, t \in {u \in shorter : Len(u) = n - 1}}

NameInputs == TextsUpTo(NameAlphabet, MaxNameLen) \cup {"WBAC Maidstone!!", "WBAC Maidstone"}

\* sanitize_filename(value)
CallSanitize ==
    /\ pc = "called"
    /\ call.fn = "sanitize_filename"
    /\ outcome' = Returned(sanitize_filename(call.arg))
    /\ pc' = "done"
    /\ UNCHANGED <<fsvars, cfgvars, call, ws, locals, history>>

\* A CarModel whose three flags are given: the validator of the schema leaves
\* each flag "Y" or "N".
YN == {"Y", "N"}

FlaggedCar(offloaded, docs, spare_keys) ==
    [reg |-> "AB12CDE", make_model |-> "Ford Focus", offloaded |-> offloaded,
     docs |-> docs, spare_keys |-> spare_keys, car_notes |-> ""]

FlaggedCars == {FlaggedCar(o, d, k) : o \in YN, d \in YN, k \in YN}

SeqsUpTo(S, n) == UNION {[1..k -> S] : k \in 0..n}

\* _generate_load_summary(cars)
CallSummary ==
    /\ pc = "called"
    /\ call.fn = "_generate_load_summary"
    /\ outcome' = Returned(_generate_load_summary(call.arg))
    /\ pc' = "done"
    /\ UNCHANGED <<fsvars, cfgvars, call, ws, locals, history>>

HelperCalls ==
    {[fn |-> "get_week_end_from_date", arg |-> date] : date \in DateRange}
        \cup {[fn |-> "sanitize_filename", arg |-> value] : value \in NameInputs}
        \cup {[fn |-> "_generate_load_summary", arg |-> cars] :
                  cars \in SeqsUpTo(FlaggedCars, MaxSummaryCars)}

InitHelpers ==
    /\ InitDisk /\ InitSettings
    /\ pc = "called"
    /\ call \in HelperCalls
    /\ ws = <<>>
    /\ locals = NoLocals
    /\ outcome = NoOutcome
    /\ history = <<>>

NextHelpers ==
    \/ CallWeekEnd
    \/ CallSanitize
    \/ CallSummary

SpecHelpers == InitHelpers /\ [][NextHelpers]_vars

-----------------------------------------------------------------------------
(* One call of generate_loadsheet, from each state of the disk and of the  *)
(* environment a call can find.                                            *)

\* The i-th car of a load: every second car has notes and documents, every
\* third is offloaded, and the texts are in mixed case.
RosterCar(i) ==
    [reg |-> "ab" \o IntStr(i) \o "cde",
     make_model |-> "Ford Focus " \o IntStr(i),
     offloaded |-> IF i % 3 = 0 THEN "Y" ELSE "N",
     docs |-> IF i % 2 = 0 THEN "Y" ELSE "N",
     spare_keys |-> IF i % 4 = 1 THEN "N" ELSE "Y",
     car_notes |-> IF i % 2 = 0 THEN "Scratch " \o IntStr(i) ELSE ""]

LoadsheetDates ==
    {Ord2Ymd(AddDays(Ymd2Ord(TestWeekMonday), k)) : k \in 0..7}
        \cup {[y |-> 2024, m |-> 12, d |-> 30]}

LoadsheetRequests ==
    {[load_date |-> date,
      load_number |-> number,
      collection_point |-> collection,
      delivery_point |-> "BTT Yard",
      fleet_reg |-> "y6btt",
      load_notes |-> notes,
      sig1 |-> "random",
      sig2 |-> sig2,
      cars |-> [i \in 1..k |-> RosterCar(i)]] :
        date \in LoadsheetDates, number \in {"$S123456", "L2"},
        collection \in {"WBAC Maidstone", "!!"}, notes \in {"", " Sample manifest "},
        sig2 \in {"", "random"}, k \in 0..MaxCars}

DisablePdfEnv == [name \in {"PAPERWORK_DISABLE_PDF"} |-> "true"]

InitLoadsheet ==
    /\ InitIdle
    /\ templates \in {{"loadsheet.xlsx", "timesheet.xlsx"}, {"timesheet.xlsx"}}
    /\ merged_cells = {}
    /\ folders = {}
    /\ files = <<>>
    /\ pdfs = {}
    /\ pdf_override = <<>>
    /\ environ \in {<<>>, DisablePdfEnv}

NextLoadsheet ==
    \E request \in LoadsheetRequests :
        \E sig1_embedded \in EmbedChoices(request.sig1),
           sig2_embedded \in EmbedChoices(request.sig2),
           run \in LibreOfficeRunsOf(request) :
            /\ GenerateLoadsheet(request, sig1_embedded, sig2_embedded, run)
            /\ UNCHANGED history

SpecLoadsheet == InitLoadsheet /\ [][NextLoadsheet]_vars

-----------------------------------------------------------------------------
(* generate_timesheet called once on an empty output directory.            *)

\* A validated TimesheetRequest: the schema declares no include_pdf field.
TimesheetRequestOf(week_ending, weekly_total_hours, days) ==
    [week_ending |-> week_ending,
     week_end_date |-> <<>>,
     driver |-> "Craig Example",
     fleet_reg |-> <<"Y6BTT", "ZZ1234", "Y6BTT">>,
     start_mileage |-> "12000",
     end_mileage |-> "12050",
     weekly_total_hours |-> weekly_total_hours,
     sig1 |-> "random",
     sig2 |-> "random",
     days |-> days]

\* A validated DayModel: validate_day returns the name in title case.
DayModelOf(day, start_time, finish_time, total_hours, loads) ==
    [day |-> day, start_time |-> start_time, finish_time |-> finish_time,
     total_hours |-> total_hours, loads |-> loads]

\* The j-th load of a day: distinct customers, notes on every second load.
RosterLoad(j) ==
    [type |-> "LoadModel",
     customer |-> "Wbac " \o IntStr(j),
     car_count |-> PyInt(j),
     collection |-> "Maidstone " \o IntStr(j),
     delivery |-> "Btt Yard",
     note |-> IF j % 2 = 1 THEN "Docs onboard" ELSE ""]

\* A load entry that carries a message instead of load data.
MessageLoad == [type |-> "dict", items |-> [message |-> PyStr("No work today")]]

\* The merged ranges the timesheet template may have around the driver cell:
\* none, J3:L3 (K3 is not the anchor) and K3:L3 (K3 is the anchor).
MergedVariants ==
    {{},
     {[min_row |-> 3, min_col |-> 10, max_row |-> 3, max_col |-> 12]},
     {[min_row |-> 3, min_col |-> 11, max_row |-> 3, max_col |-> 12]}}

\* The week endings asked for: the Sunday of the tests' week, a Wednesday of
\* that week, and a Sunday whose week starts in February of a leap year.
TimesheetWeekEndings ==
    {[y |-> 2025, m |-> 5, d |-> 18], [y |-> 2025, m |-> 5, d |-> 14],
     [y |-> 2024, m |-> 3, d |-> 3]}

\* Both templates are there, and the driver cell K3 is merged into J3:L3.
InitTimesheet ==
    /\ InitIdle
    /\ templates = {"loadsheet.xlsx", "timesheet.xlsx"}
    /\ merged_cells = {[min_row |-> 3, min_col |-> 10, max_row |-> 3, max_col |-> 12]}
    /\ folders = {}
    /\ files = <<>>
    /\ pdfs = {}
    /\ pdf_override = <<>>
    /\ environ = DisablePdfEnv

\* The timesheet template is there or not, with any of the merged ranges.
InitTimesheetTemplates ==
    /\ InitIdle
    /\ templates \in {{"loadsheet.xlsx", "timesheet.xlsx"}, {"loadsheet.xlsx"}}
    /\ merged_cells \in MergedVariants
    /\ folders = {}
    /\ files = <<>>
    /\ pdfs = {}
    /\ pdf_override = <<>>
    /\ environ = DisablePdfEnv

\* Day entries that differ in their times: one to MaxTimeDays entries, each
\* for Monday or for the weekday of its position, without loads.
TimeTexts == [start_time : {<<>>, <<"07:00">>, <<" sick ">>, <<"Holiday">>},
              finish_time : {<<"16:00">>, <<"SICK">>},
              total_hours : {<<>>, <<"9">>}]

TimeDays(pos) ==
    {DayModelOf(day, texts.start_time, texts.finish_time, texts.total_hours, <<>>) :
        day \in {"Monday", WeekdayNames[pos]}, texts \in TimeTexts}

RECURSIVE TimeDayLists(_)
TimeDayLists(n) ==
    IF n = 0 THEN {<<>>}
    ELSE {Append(days, day) : days \in TimeDayLists(n - 1), day \in TimeDays(n)}

TimesRequests ==
    {TimesheetRequestOf([y |-> 2025, m |-> 5, d |-> 18], <<>>, days) :
        days \in UNION {TimeDayLists(n) : n \in 1..MaxTimeDays}}

NextTimes ==
    \E request \in TimesRequests :
        GenerateTimesheet(request, "not_run") /\ UNCHANGED history

SpecTimes == InitTimesheet /\ [][NextTimes]_vars

\* Day entries that differ in their loads: 0 .. MaxLoads loads, all of them
\* load data or with a message entry among them.
LoadLists ==
    {[j \in 1..k |-> RosterLoad(j)] : k \in 0..MaxLoads}
        \cup {<<MessageLoad>>,
              <<MessageLoad, RosterLoad(1), RosterLoad(2), RosterLoad(3)>>,
              <<RosterLoad(1), RosterLoad(2), RosterLoad(3), MessageLoad, RosterLoad(4)>>}

\* The entries after the first have no loads, five loads, or a message entry
\* among five.
LaterLoadLists ==
    {<<>>,
     [j \in 1..5 |-> RosterLoad(j)],
     <<RosterLoad(1), RosterLoad(2), RosterLoad(3), MessageLoad, RosterLoad(4)>>}

LoadDays(pos) ==
    {DayModelOf(day, <<"07:00">>, <<"16:00">>, <<"9">>, loads) :
        day \in {"Monday", "Sunday"},
        loads \in IF pos = 1 THEN LoadLists ELSE LaterLoadLists}

RECURSIVE LoadDayLists(_)
LoadDayLists(n) ==
    IF n = 0 THEN {<<>>}
    ELSE {Append(days, day) : days \in LoadDayLists(n - 1), day \in LoadDays(n)}

LoadsRequests ==
    {TimesheetRequestOf(week_ending, <<"16.5">>, days) :
        week_ending \in TimesheetWeekEndings,
        days \in UNION {LoadDayLists(n) : n \in 1..MaxDayEntries}}

NextLoads ==
    \E request \in LoadsRequests :
        GenerateTimesheet(request, "not_run") /\ UNCHANGED history

SpecLoads == InitTimesheetTemplates /\ [][NextLoads]_vars

\* Day entries that differ in their hours: one to MaxHoursDays entries, for
\* Monday, Tuesday and so on, and the weekly total given or not.
HoursTexts == {<<>>, <<"9">>, <<"7.5">>, <<"bad">>, <<"0">>}

WeeklyTotals == {<<>>, <<"16.5">>, <<" 40 ">>, <<"  ">>}

RECURSIVE HoursDayLists(_)
HoursDayLists(n) ==
    IF n = 0 THEN {<<>>}
    ELSE {Append(days, DayModelOf(WeekdayNames[n], <<"07:00">>, <<"16:00">>, hours, <<>>)) :
            days \in HoursDayLists(n - 1), hours \in HoursTexts}

HoursRequests ==
    {TimesheetRequestOf([y |-> 2025, m |-> 5, d |-> 18], weekly, days) :
        weekly \in WeeklyTotals,
        days \in UNION {HoursDayLists(n) : n \in 1..MaxHoursDays}}

NextHours ==
    \E request \in HoursRequests :
        GenerateTimesheet(request, "not_run") /\ UNCHANGED history

SpecHours == InitTimesheet /\ [][NextHours]_vars

-----------------------------------------------------------------------------
(* generate_timesheet called once with a request validated from the        *)
(* fleet registrations a client sent, on templates that differ in the      *)
(* merged ranges around the driver cell.                                   *)

\* A request carries at most this many fleet registrations.
MaxRegs == 3

\* Registrations as they are sent: two that differ in letter case only,
\* another one, one with a space before it, and blank ones.
FleetTexts == {"y6btt", "Y6BTT", "zz1234", " zz1234", " ", ""}

RECURSIVE FleetLists(_)
FleetLists(n) ==
    IF n = 0 THEN {<<>>}
    ELSE {Append(regs, reg) : regs \in FleetLists(n - 1), reg \in FleetTexts}

\* fleet_reg of the payload: one str, or a list of them.
FleetPayloads ==
    {PyStr(reg) : reg \in FleetTexts}
        \cup {PyList(regs) : regs \in UNION {FleetLists(n) : n \in 0..MaxRegs}}

\* TimesheetRequest(**payload) for a payload with the given fleet_reg.
ValidatedRequest(fleet_reg) ==
    [TimesheetRequestOf([y |-> 2025, m |-> 5, d |-> 18], <<"16.5">>,
                        << DayModelOf("Monday", <<"07:00">>, <<"16:00">>, <<"9">>,
                                      << RosterLoad(1) >>) >>)
        EXCEPT !.fleet_reg = uppercase_fleet_reg(normalize_fleet_reg(fleet_reg))]

\* The merged ranges of the template: none around K3; J3:L3, K3:L3, K2:K4
\* and J2:L4 holding K3; and A1:B2 elsewhere on the sheet.
HeaderMergedVariants ==
    MergedVariants
        \cup {{[min_row |-> 2, min_col |-> 11, max_row |-> 4, max_col |-> 11]},
              {[min_row |-> 2, min_col |-> 10, max_row |-> 4, max_col |-> 12],
               [min_row |-> 1, min_col |-> 1, max_row |-> 2, max_col |-> 2]},
              {[min_row |-> 1, min_col |-> 1, max_row |-> 2, max_col |-> 2]}}

InitHeader ==
    /\ InitIdle
    /\ templates = {"loadsheet.xlsx", "timesheet.xlsx"}
    /\ merged_cells \in HeaderMergedVariants
    /\ folders = {}
    /\ files = <<>>
    /\ pdfs = {}
    /\ pdf_override = <<>>
    /\ environ = DisablePdfEnv

\* The payload is validated and the generator called with the request; the
\* history keeps the fleet_reg that was sent.
NextHeader ==
    \E fleet_reg \in FleetPayloads :
        /\ GenerateTimesheet(ValidatedRequest(fleet_reg), "not_run")
        /\ history' = Append(history, [op |-> "validate", fleet_reg |-> fleet_reg])

SpecHeader == InitHeader /\ [][NextHeader]_vars

-----------------------------------------------------------------------------
(* generate_timesheet called once with free-form dict loads among the      *)
(* entries of a day.  DayModel.loads is List[Union[LoadModel, dict]]: an   *)
(* entry that does not validate as a LoadModel stays the dict it was sent  *)
(* as, with any keys and values of any type.                               *)

\* The entries of a day's list, the last day apart, are at most this many.
MaxEntries == 4

\* A dict whose message is a number.
NumberMessage == [type |-> "dict", items |-> [message |-> PyInt(5)]]

\* A dict with load data that is no LoadModel (delivery is None), the car
\* count a number and the message empty.
EmptyMessageLoad ==
    [type |-> "dict",
     items |-> [message |-> PyStr(""), customer |-> PyStr("Acme"), car_count |-> PyInt(2),
                collection |-> PyStr("Leeds"), delivery |-> PyNone]]

\* A dict with neither a customer nor a collection key.
KeylessDict == [type |-> "dict", items |-> [delivery |-> PyStr("Btt Yard")]]

\* What the entry at position p of a day's list may be.
EntryKinds(p) == {RosterLoad(p), MessageLoad, NumberMessage, EmptyMessageLoad, KeylessDict}

RECURSIVE EntryLists(_)
EntryLists(n) ==
    IF n = 0 THEN {<<>>}
    ELSE {Append(loads, load) : loads \in EntryLists(n - 1), load \in EntryKinds(n)}

\* The request has one entry for Monday and, possibly, an entry for Tuesday
\* after it with five entries of its own.
TuesdayEntries ==
    {<<>>,
     << DayModelOf("Tuesday", <<"07:00">>, <<"16:00">>, <<"9">>, [j \in 1..5 |-> RosterLoad(j)]) >>,
     << DayModelOf("Tuesday", <<"07:00">>, <<"16:00">>, <<"9">>,
                   <<RosterLoad(1), RosterLoad(2), RosterLoad(3), KeylessDict, RosterLoad(4)>>) >>}

EntriesRequests ==
    {TimesheetRequestOf([y |-> 2025, m |-> 5, d |-> 18], <<"16.5">>,
                        << DayModelOf("Monday", <<"07:00">>, <<"16:00">>, <<"9">>, loads) >>
                            \o later) :
        loads \in UNION {EntryLists(n) : n \in 0..MaxEntries}, later \in TuesdayEntries}

NextEntries ==
    \E request \in EntriesRequests :
        GenerateTimesheet(request, "not_run") /\ UNCHANGED history

SpecEntries == InitTimesheet /\ [][NextEntries]_vars

-----------------------------------------------------------------------------
(* The settings on their own: the override is set and cleared and the      *)
(* environment variable is changed, in any order, MaxSettingsOps times.    *)

\* Texts PAPERWORK_DISABLE_PDF is given.
DisablePdfTexts == {"true", "TRUE", "tRue", "false", "1"}

InitSettingsOps ==
    /\ InitIdle /\ InitDisk
    /\ pdf_override = <<>>
    /\ environ \in {<<>>, DisablePdfEnv}

NextSettings ==
    /\ Len(history) < MaxSettingsOps
    /\ \/ \E enabled \in BOOLEAN : set_pdf_enabled(enabled)
       \/ clear_pdf_override
       \/ \E value \in DisablePdfTexts : Setenv("PAPERWORK_DISABLE_PDF", value)
       \/ Delenv("PAPERWORK_DISABLE_PDF")

SpecSettings == InitSettingsOps /\ [][NextSettings]_vars

-----------------------------------------------------------------------------
(* One request sent to the HTTP application.                               *)

\* Load numbers as clients send them: plain ones, one that ends like the
\* start of a collection point, and ones that carry path separators.
ApiLoadNumbers == {"L2", "L2_WBAC", "A/B", "/tmp/L2", "../../templates/loadsheet"}

ApiLoadsheetRequest(date, number, collection, k) ==
    [load_date |-> date,
     load_number |-> number,
     collection_point |-> collection,
     delivery_point |-> "BTT Yard",
     fleet_reg |-> "y6btt",
     load_notes |-> "",
     sig1 |-> "",
     sig2 |-> "",
     cars |-> [i \in 1..k |-> RosterCar(i)]]

\* Monday and Sunday of the tests' week and the Monday after it.
ApiDates ==
    {TestWeekMonday, [y |-> 2025, m |-> 5, d |-> 18], [y |-> 2025, m |-> 5, d |-> 19]}

ApiLoadsheetRequests ==
    {ApiLoadsheetRequest(date, number, collection, k) :
        date \in ApiDates, number \in ApiLoadNumbers,
        collection \in {"WBAC Maidstone", "Maidstone"}, k \in {1, MaxCars}}

\* Drivers whose names sanitize_filename maps to one name, and another.
ApiDrivers == {"Craig Example", "Craig_Example", "Dana"}

ApiTimesheetRequest(week_ending, driver) ==
    [TimesheetRequestOf(week_ending, <<>>,
                        << DayModelOf("Monday", <<"06:00">>, <<"15:00">>, <<"9">>,
                                      << RosterLoad(1) >>) >>)
        EXCEPT !.driver = driver]

ApiTimesheetRequests ==
    {ApiTimesheetRequest(week_ending, driver) :
        week_ending \in ApiDates, driver \in ApiDrivers}

ApiMethods == {"GET", "POST"}

\* Paths requests are sent to: routes of the application and others.
ApiPaths == {"/api/settings", "/api/health", "/api/loadsheet/generate", "/api/loadsheet"}

InitApi ==
    /\ InitIdle
    /\ templates \in {{"loadsheet.xlsx", "timesheet.xlsx"}, {}}
    /\ merged_cells = {[min_row |-> 3, min_col |-> 10, max_row |-> 3, max_col |-> 12]}
    /\ folders = {}
    /\ files = <<>>
    /\ pdfs = {}
    /\ pdf_override = <<>>
    /\ environ = DisablePdfEnv

NextApi ==
    \/ \E request \in ApiLoadsheetRequests : create_loadsheet(request, FALSE, FALSE, "not_run")
    \/ \E request \in ApiTimesheetRequests : create_timesheet(request, "not_run")
    \/ \E method \in ApiMethods, path \in ApiPaths : NotRouted(method, path)

SpecApi == InitApi /\ [][NextApi]_vars

-----------------------------------------------------------------------------
(* The application serving generation requests one after another, while    *)
(* missing templates may be put in place.                                  *)

\* Pairs of a load number and a collection point: two that give one file
\* name, a third load, and load numbers that carry path separators.
ServiceLoads ==
    {<<"L2", "WBAC Maidstone">>, <<"L2_WBAC", "Maidstone">>, <<"L3", "WBAC Maidstone">>,
     <<"/tmp/L2", "Maidstone">>, <<"../../templates/loadsheet", "Maidstone">>}

\* Two days of one week.
ServiceLoadDates == {TestWeekMonday, [y |-> 2025, m |-> 5, d |-> 18]}

\* Every load dated on the Monday, and the plain ones on the Sunday too.
ServiceLoadsheetRequests ==
    {ApiLoadsheetRequest(dated[1], dated[2][1], dated[2][2], 1) :
        dated \in {d \in ServiceLoadDates \X ServiceLoads :
                      d[1] = TestWeekMonday \/ d[2][1] \in {"L2", "L3"}}}

\* A day of each of two weeks.
ServiceWeekEndings == {TestWeekMonday, [y |-> 2025, m |-> 5, d |-> 19]}

ServiceTimesheetRequests ==
    {ApiTimesheetRequest(week_ending, driver) :
        week_ending \in ServiceWeekEndings, driver \in ApiDrivers}

InitService ==
    /\ InitIdle
    /\ templates \in {{"loadsheet.xlsx", "timesheet.xlsx"}, {}}
    /\ merged_cells = {[min_row |-> 3, min_col |-> 10, max_row |-> 3, max_col |-> 12]}
    /\ folders = {}
    /\ files = <<>>
    /\ pdfs = {}
    /\ pdf_override = <<>>
    /\ environ = DisablePdfEnv

NextService ==
    \/ /\ Len(history) < MaxCalls
       /\ \/ \E request \in ServiceLoadsheetRequests :
                 create_loadsheet(request, FALSE, FALSE, "not_run")
          \/ \E request \in ServiceTimesheetRequests : create_timesheet(request, "not_run")
    \/ AwaitRequest
    \/ \E name \in {"loadsheet.xlsx", "timesheet.xlsx"} :
           PutTemplate(name) /\ UNCHANGED history

SpecService == InitService /\ [][NextService]_vars

-----------------------------------------------------------------------------
(* The application serving a few requests again and again, the settings    *)
(* and both templates staying as they are.                                 *)

\* At most this many requests are served.
MaxServed == 3

\* Loads of the tests' week and of the week after it; one load number names
\* a file in the folder of the week after its own.
RepeatLoadsheetRequests ==
    {ApiLoadsheetRequest(TestWeekMonday, "L2", "Maidstone", 1),
     ApiLoadsheetRequest(TestWeekMonday, "../25-05-25/L2", "Maidstone", 1),
     ApiLoadsheetRequest([y |-> 2025, m |-> 5, d |-> 19], "L3", "Maidstone", 1)}

RepeatTimesheetRequests ==
    {ApiTimesheetRequest(TestWeekMonday, "Dana"),
     ApiTimesheetRequest([y |-> 2025, m |-> 5, d |-> 19], "Dana")}

InitRepeat ==
    /\ InitIdle
    /\ templates = {"loadsheet.xlsx", "timesheet.xlsx"}
    /\ merged_cells = {[min_row |-> 3, min_col |-> 10, max_row |-> 3, max_col |-> 12]}
    /\ folders = {}
    /\ files = <<>>
    /\ pdfs = {}
    /\ pdf_override = <<>>
    /\ environ = DisablePdfEnv

NextRepeat ==
    \/ /\ Len(history) < MaxServed
       /\ \/ \E request \in RepeatLoadsheetRequests :
                 create_loadsheet(request, FALSE, FALSE, "not_run")
          \/ \E request \in RepeatTimesheetRequests : create_timesheet(request, "not_run")
    \/ AwaitRequest

SpecRepeat == InitRepeat /\ [][NextRepeat]_vars

-----------------------------------------------------------------------------
(* Two generation requests in the process at once.  Each runs its          *)
(* generator statement by statement: the checks, the week folder, the      *)
(* template loaded into a workbook of its own, the cells in three          *)
(* portions, wb.save, and the lines after it; the steps of the two         *)
(* interleave in any order.  pc, call, ws, locals and outcome hold one     *)
(* value for each request here, and history the saves in their order.      *)

Procs == {1, 2}

\* A workbook shared by the requests, as one loaded at import time would be.
Workbook_shared(p) == 1

\* wb = load_workbook(...): the workbook a request populates is its own.
Workbook(p) == p

\* Requests that derive one path and differ in what they write.
ConcurrentCalls ==
    {[fn |-> "generate_loadsheet", request |-> request] :
        request \in {ApiLoadsheetRequest(TestWeekMonday, "L2", "WBAC Maidstone", 1),
                     ApiLoadsheetRequest([y |-> 2025, m |-> 5, d |-> 18],
                                         "L2_WBAC", "Maidstone", 2),
                     ApiLoadsheetRequest(TestWeekMonday, "L3", "WBAC Maidstone", 1)}}
      \cup {[fn |-> "generate_timesheet", request |-> request] :
                request \in {ApiTimesheetRequest(TestWeekMonday, "Craig Example"),
                             ApiTimesheetRequest(TestWeekMonday, "Craig_Example")}}

\* The assignments of a call from load_workbook to wb.save, all of them.
AllWrites(c) ==
    IF c.fn = "generate_loadsheet" THEN LoadsheetWrites(c.request, FALSE, FALSE)
    ELSE TimesheetHeaderWrites(c.request, WeekEndOf(c.request))
             \o DaysFrom(c.request.days, 1, WeekEndOf(c.request), FirstOverflowRow).writes
             \o WeeklyTotalWrites(c.request)

\* Where the portions end: the header cells (loadsheet.py 76-82, timesheet.py
\* 94-109), the loop over the car slots or the days (84-95, 111-173) and the
\* rest (97-110, 175-180).
PortionEnds(c) ==
    IF c.fn = "generate_loadsheet"
    THEN <<7, 7 + Len(CAR_CELL_MAP) * Len(CarKeys), Len(AllWrites(c))>>
    ELSE <<5, Len(AllWrites(c)) - 1, Len(AllWrites(c))>>

Portion(c, k) ==
    SubSeq(AllWrites(c), IF k = 1 THEN 1 ELSE PortionEnds(c)[k - 1] + 1, PortionEnds(c)[k])

WeekFolderOf(c) ==
    format_folder_date(get_week_end_from_date(
        Ymd2Ord(IF c.fn = "generate_loadsheet" THEN c.request.load_date
                ELSE c.request.week_ending)))

FileStemOf(c) ==
    IF c.fn = "generate_loadsheet" THEN LoadsheetFilename(c.request)
    ELSE "timesheet_" \o format_iso_date(WeekEndOf(c.request)) \o "_"
             \o sanitize_filename(c.request.driver)

At(p, from, to) == pc[p] = from /\ pc' = [pc EXCEPT ![p] = to]

\* The template and capacity checks.
CheckRequest(p) ==
    /\ pc[p] = "start"
    /\ IF TemplateMissing(IF call[p].fn = "generate_loadsheet"
                          THEN "loadsheet.xlsx" ELSE "timesheet.xlsx")
       THEN /\ outcome' = [outcome EXCEPT ![p] = Raised("FileNotFoundError")]
            /\ pc' = [pc EXCEPT ![p] = "done"]
       ELSE IF call[p].fn = "generate_loadsheet" /\ CarsOverCapacity(call[p].request)
       THEN /\ outcome' = [outcome EXCEPT ![p] = Raised("ValueError")]
            /\ pc' = [pc EXCEPT ![p] = "done"]
       ELSE /\ pc' = [pc EXCEPT ![p] = "checked"]
            /\ UNCHANGED outcome
    /\ UNCHANGED <<fsvars, cfgvars, call, ws, locals, history>>

\* ensure_output_folder(week_end) and the path of the workbook.
EnsureFolder(p) ==
    /\ At(p, "checked", "folder")
    /\ folders' = folders \cup {WeekFolderOf(call[p])}
    /\ locals' = [locals EXCEPT
                     ![p] = [excel_path |-> PathStr(WeekFolderOf(call[p]),
                                                    FileStemOf(call[p]) \o ".xlsx")]]
    /\ UNCHANGED <<templates, merged_cells, files, pdfs, cfgvars, call, ws, outcome, history>>

\* wb = load_workbook(template); ws = wb.active
LoadWorkbook(p) ==
    /\ At(p, "folder", "portion1")
    /\ ws' = [ws EXCEPT ![Workbook(p)] = <<>>]
    /\ UNCHANGED <<fsvars, cfgvars, call, locals, outcome, history>>

\* The assignments of the k-th portion.
AssignPortion(p, k) ==
    /\ At(p, "portion" \o IntStr(k), IF k = 3 THEN "populated" ELSE "portion" \o IntStr(k + 1))
    /\ ws' = [ws EXCEPT ![Workbook(p)] = ws[Workbook(p)] \o Portion(call[p], k)]
    /\ UNCHANGED <<fsvars, cfgvars, call, locals, outcome, history>>

\* wb.save(excel_path)
SaveWorkbook(p) ==
    /\ pc[p] = "populated"
    /\ IF Resolve(WeekFolderOf(call[p]), FileStemOf(call[p]) \o ".xlsx", folders).found
       THEN /\ pc' = [pc EXCEPT ![p] = "saved"]
            /\ files' = SaveAs(files,
                               Resolve(WeekFolderOf(call[p]), FileStemOf(call[p]) \o ".xlsx",
                                       folders).path,
                               ws[Workbook(p)])
            /\ history' = Append(history, [op |-> "save", proc |-> p])
            /\ UNCHANGED outcome
       ELSE /\ pc' = [pc EXCEPT ![p] = "done"]
            /\ outcome' = [outcome EXCEPT ![p] = Raised("FileNotFoundError")]
            /\ UNCHANGED <<files, history>>
    /\ UNCHANGED <<templates, merged_cells, folders, pdfs, cfgvars, call, ws, locals>>

\* The lines after wb.save, to the return or the exception.
FinishCall(p) ==
    /\ At(p, "saved", "done")
    /\ outcome' = [outcome EXCEPT
                      ![p] = FinishGenerate(call[p].request, files, WeekFolderOf(call[p]),
                                            FileStemOf(call[p]), WeekEndOf(call[p].request),
                                            "Workbook", "not_run").outcome]
    /\ UNCHANGED <<fsvars, cfgvars, call, ws, locals, history>>

InitConcurrent ==
    /\ pc = [p \in Procs |-> "start"]
    /\ call \in [Procs -> ConcurrentCalls]
    /\ ws = [p \in Procs |-> <<>>]
    /\ locals = [p \in Procs |-> NoLocals]
    /\ outcome = [p \in Procs |-> NoOutcome]
    /\ history = <<>>
    /\ templates = {"loadsheet.xlsx", "timesheet.xlsx"}
    /\ merged_cells = {[min_row |-> 3, min_col |-> 10, max_row |-> 3, max_col |-> 12]}
    /\ folders = {}
    /\ files = <<>>
    /\ pdfs = {}
    /\ pdf_override = <<>>
    /\ environ = DisablePdfEnv

NextConcurrent ==
    \E p \in Procs :
        \/ CheckRequest(p)
        \/ EnsureFolder(p)
        \/ LoadWorkbook(p)
        \/ \E k \in 1..3 : AssignPortion(p, k)
        \/ SaveWorkbook(p)
        \/ FinishCall(p)

SpecConcurrent == InitConcurrent /\ [][NextConcurrent]_vars

-----------------------------------------------------------------------------
(* C1: for every date D, get_week_end_from_date(D) is the smallest date on *)
(* or after D that falls on a Sunday: it is a Sunday, it lies 0 to 6 days  *)
(* after D, no day from D up to the day before it is a Sunday, a Sunday    *)
(* maps to itself, and the function applied to its result returns it.      *)
C1_WeekEndIsNextSunday ==
    (call.fn = "get_week_end_from_date" /\ pc = "done") =>
        LET D == call.arg
            W == outcome.value
        IN /\ Weekday(W) = 6
           /\ W - D \in 0..6
           /\ \A E \in D..(W - 1) : Weekday(E) # 6
           /\ (Weekday(D) = 6 => W = D)
           /\ get_week_end_from_date(W) = W

\* A Saturday was mapped to the next day and a Sunday to itself.
C1_Witness ==
    /\ call.fn = "get_week_end_from_date" /\ pc = "done"
    /\ call.arg = Ymd2Ord([y |-> 2025, m |-> 5, d |-> 17])
    /\ outcome.value = Ymd2Ord([y |-> 2025, m |-> 5, d |-> 18])
    /\ Weekday(call.arg) = 5

-----------------------------------------------------------------------------
(* sanitize_filename, described position by position.                      *)

\* s with every maximal run of characters outside `kept` replaced by one "_":
\* a character of `kept` stays, the first character of a run becomes "_",
\* the other characters of a run vanish.
CollapseRuns(s, kept) ==
    Join("", [i \in 1..Len(s) |->
                 IF Char(s, i) \in kept THEN Char(s, i)
                 ELSE IF i = 1 \/ Char(s, i - 1) \in kept THEN "_"
                 ELSE ""])

\* s from its first to its last character outside `seps` ("" when it has none).
TrimEnds(s, seps) ==
    LET inner == {i \in 1..Len(s) : Char(s, i) \notin seps}
    IN IF inner = {} THEN ""
       ELSE SubSeq(s, CHOOSE i \in inner : \A j \in inner : i <= j,
                      CHOOSE i \in inner : \A j \in inner : i >= j)

OrDefaultName(s) == IF s = "" THEN "paperwork" ELSE s

SanitizeDone == pc = "done" /\ call.fn = "sanitize_filename"

\* C8 as stated: every run of non-alphanumeric characters becomes a single
\* underscore, leading and trailing underscores are trimmed, "paperwork" is
\* returned when nothing is left, the result is never empty and never starts
\* or ends with an underscore, and "WBAC Maidstone!!" yields "WBAC_Maidstone".
C8_AsStated ==
    SanitizeDone =>
        /\ outcome.value = OrDefaultName(TrimEnds(CollapseRuns(call.arg, KeptAlnumOnly), {"_"}))
        /\ outcome.value # ""
        /\ Head(outcome.value) # "_"
        /\ Char(outcome.value, Len(outcome.value)) # "_"
        /\ (call.arg = "WBAC Maidstone!!" => outcome.value = "WBAC_Maidstone")

\* C8 amended: every run of characters other than ASCII letters, digits, "-",
\* "_" and "." becomes a single underscore, leading and trailing "_", "." and
\* "-" are trimmed, "paperwork" is returned when nothing is left; the result
\* is never empty and never starts or ends with "_", "." or "-", and
\* "WBAC Maidstone!!" yields "WBAC_Maidstone".
C8_SanitizeKeepsDashDotUnderscore ==
    SanitizeDone =>
        /\ outcome.value =
               OrDefaultName(TrimEnds(CollapseRuns(call.arg, KeptByPattern), {"_", ".", "-"}))
        /\ outcome.value # ""
        /\ Head(outcome.value) \notin {"_", ".", "-"}
        /\ Char(outcome.value, Len(outcome.value)) \notin {"_", ".", "-"}
        /\ (call.arg = "WBAC Maidstone!!" => outcome.value = "WBAC_Maidstone")

\* A text with a kept "-" and a replaced blank was sanitized.
C8_Witness ==
    /\ SanitizeDone
    /\ call.arg = "A- b"
    /\ outcome.value = "A-_b"

-----------------------------------------------------------------------------
SummaryDone == pc = "done" /\ call.fn = "_generate_load_summary"

\* C6: the summary line is "<L> CARS LOADED, <docs part>, <K> CARS HAVE SPARE
\* KEYS", L the number of cars still loaded (not offloaded), K the number of
\* cars with spare keys, the docs part "0 CARS HAVE DOCUMENTS" when no car has
\* documents and otherwise a longer wording that starts with the number of
\* cars with documents; with no cars it is exactly
\* "0 CARS LOADED, 0 CARS HAVE DOCUMENTS, 0 CARS HAVE SPARE KEYS".
C6_SummaryLine ==
    SummaryDone =>
        LET cars == call.arg
            L == Cardinality({i \in DOMAIN cars : cars[i].offloaded # "Y"})
            D == Cardinality({i \in DOMAIN cars : cars[i].docs = "Y"})
            K == Cardinality({i \in DOMAIN cars : cars[i].spare_keys = "Y"})
            docs_part ==
                IF D = 0 THEN "0 CARS HAVE DOCUMENTS"
                ELSE IntStr(D) \o " CARS HAVE DOCUMENTS AND HAVE BEEN PLACED ON THE PASSENGER SEAT"
        IN /\ outcome.value = IntStr(L) \o " CARS LOADED, " \o docs_part \o ", "
                                  \o IntStr(K) \o " CARS HAVE SPARE KEYS"
           /\ (D # 0 => docs_part # IntStr(D) \o " CARS HAVE DOCUMENTS")
           /\ (cars = <<>> => outcome.value =
                  "0 CARS LOADED, 0 CARS HAVE DOCUMENTS, 0 CARS HAVE SPARE KEYS")

\* Two cars, one of them offloaded, one with documents, both with spare keys.
C6_Witness ==
    /\ SummaryDone
    /\ call.arg = <<FlaggedCar("N", "Y", "Y"), FlaggedCar("Y", "N", "Y")>>
    /\ outcome.value = "1 CARS LOADED, 1 CARS HAVE DOCUMENTS AND HAVE BEEN PLACED ON THE PASSENGER SEAT, 2 CARS HAVE SPARE KEYS"

-----------------------------------------------------------------------------
LoadsheetCalled == pc = "idle" /\ pc' = "done" /\ call'.fn = "generate_loadsheet"

\* C2 as stated: a call of generate_loadsheet with more than 8 cars raises
\* ValueError, and it creates no folder and writes no workbook.
C2_AsStated ==
    [][(LoadsheetCalled /\ Len(call'.request.cars) > 8) =>
           /\ outcome'.status = "ValueError"
           /\ folders' = folders
           /\ files' = files]_vars

\* C2 amended: a call of generate_loadsheet with more than 8 cars raises
\* ValueError when the loadsheet template exists and FileNotFoundError when it
\* is missing (the template is checked first); either way it creates no
\* folder and writes no workbook.
C2_TooManyCarsRejectedBeforeIO ==
    [][(LoadsheetCalled /\ Len(call'.request.cars) > 8) =>
           /\ outcome'.status = IF "loadsheet.xlsx" \in templates
                                THEN "ValueError" ELSE "FileNotFoundError"
           /\ folders' = folders
           /\ files' = files]_vars

\* A request with 9 cars was refused with the template in place, and the disk
\* holds no folder and no workbook.
C2_Witness ==
    /\ pc = "done" /\ call.fn = "generate_loadsheet"
    /\ Len(call.request.cars) = 9
    /\ "loadsheet.xlsx" \in templates
    /\ outcome.status = "ValueError"
    /\ folders = {} /\ files = <<>>

\* C7: no cell coordinate is the target of two different logical fields: in
\* every saved workbook, two assignments to the same cell are assignments of
\* the same field, so no field's value is overwritten by another field's.
C7_NoCellSharedByTwoFields ==
    \A path \in DOMAIN files :
        \A i, j \in DOMAIN files[path] :
            files[path][i].cell = files[path][j].cell =>
                files[path][i].field = files[path][j].field

\* A generator was called with a request it accepts: the template is there and
\* the cars fit the template.
ValidCallDone ==
    /\ pc = "done"
    /\ \/ /\ call.fn = "generate_loadsheet"
          /\ "loadsheet.xlsx" \in templates
          /\ Len(call.request.cars) <= 8
       \/ /\ call.fn = "generate_timesheet"
          /\ "timesheet.xlsx" \in templates

InputDate == IF call.fn = "generate_loadsheet"
             THEN Ymd2Ord(call.request.load_date)
             ELSE Ymd2Ord(call.request.week_ending)

\* The DD-MM-YY form of a date.
DashedDate(date) ==
    LET ymd == Ord2Ymd(date)
    IN TwoDigits(ymd.d) \o "-" \o TwoDigits(ymd.m) \o "-" \o TwoDigits(ymd.y % 100)

\* C9: for every valid request the generator returns a response whose
\* week_folder is the DD-MM-YY form of the Sunday on or after the input date,
\* and the workbook is saved inside the output folder of that name.
C9_ReturnsWeekFolderOfSunday ==
    ValidCallDone =>
        \E sunday \in InputDate..(InputDate + 6) :
            /\ Weekday(sunday) = 6
            /\ outcome.status = "returned"
            /\ outcome.week_folder = DashedDate(sunday)
            /\ DashedDate(sunday) \in folders
            /\ SubSeq(outcome.excel_path, 1, 9) = DashedDate(sunday) \o "/"
            /\ outcome.excel_path \in DOMAIN files

\* C10: with PDF conversion disabled the generator still completes: it
\* returns a response whose excel_path names a workbook on disk and whose
\* pdf_path is None.
C10_CompletesWithoutPdf ==
    (ValidCallDone /\ ~pdf_enabled) =>
        /\ outcome.status = "returned"
        /\ outcome.excel_path \in DOMAIN files
        /\ outcome.pdf_path = <<>>

-----------------------------------------------------------------------------
(* Claims about the cells of a timesheet.                                  *)

\* generate_timesheet ran to wb.save: the workbook is on disk.
TimesheetSaved ==
    /\ pc = "done"
    /\ call.fn = "generate_timesheet"
    /\ locals.excel_path \in DOMAIN files

\* The assignment was made to the worksheet during the call.
Wrote(cell, value, field) == \E k \in DOMAIN ws : ws[k] = SetCell(cell, value, field)

\* The saved workbook holds the text in the cell.
Holds(cell, value) == CellText(files[locals.excel_path], cell) = value

\* No later entry of the request is for the same weekday as entry i.
LastOfDay(i) ==
    \A k \in DOMAIN call.request.days :
        k > i => Lower(call.request.days[k].day) # Lower(call.request.days[i].day)

TimeRowOf(day_data) == IntStr(DAY_MAPPINGS[Lower(day_data.day)].time_row)

IsSickStart(day_data) ==
    day_data.start_time # <<>> /\ Upper(Strip(day_data.start_time[1])) = "SICK"

\* C3: for every day entry whose start_time is "SICK" in any letter case and
\* with whitespace around it, the call assigns "SICK" to the day's start cell
\* and finish cell and "0" to its total-hours cell, whatever finish_time and
\* total_hours the entry has, and the saved workbook holds these texts in the
\* three cells unless a later entry of the request is for the same weekday.
C3_SickDayCells ==
    TimesheetSaved =>
        \A i \in DOMAIN call.request.days :
            IsSickStart(call.request.days[i]) =>
                LET row == TimeRowOf(call.request.days[i])
                IN /\ Wrote("H" \o row, "SICK", DayField(i - 1) \o ".start_time")
                   /\ Wrote("I" \o row, "SICK", DayField(i - 1) \o ".finish_time")
                   /\ Wrote("J" \o row, "0", DayField(i - 1) \o ".total_hours")
                   /\ LastOfDay(i) =>
                          /\ Holds("H" \o row, "SICK")
                          /\ Holds("I" \o row, "SICK")
                          /\ Holds("J" \o row, "0")

C3_Witness ==
    /\ TimesheetSaved
    /\ Len(call.request.days) = 2
    /\ call.request.days[2] = DayModelOf("Tuesday", <<" sick ">>, <<"16:00">>, <<"9">>, <<>>)
    /\ Holds("H11", "SICK") /\ Holds("I11", "SICK") /\ Holds("J11", "0")

\* The Sunday on or after the week ending the request names.
WeekEndSunday ==
    CHOOSE sunday \in InputDate..(InputDate + 6) : Weekday(sunday) = 6

\* The position of a weekday in the week, Monday being 0.
DayIndex(day) == CHOOSE k \in 0..6 : Lower(WeekdayNames[k + 1]) = Lower(day)

\* The calendar date of the day an entry is for.
OwningDate(day_data) == WeekEndSunday - (6 - DayIndex(day_data.day))

\* The DD/MM/YY form of a date.
SlashedDate(date) ==
    LET ymd == Ord2Ymd(date)
    IN TwoDigits(ymd.d) \o "/" \o TwoDigits(ymd.m) \o "/" \o TwoDigits(ymd.y % 100)

IsReal(load) == load.type = "LoadModel"

StartsWith(text, prefix) ==
    Len(text) >= Len(prefix) /\ SubSeq(text, 1, Len(prefix)) = prefix

BaseRowOf(day_data) == DAY_MAPPINGS[Lower(day_data.day)].base_row

\* The call assigned the load's texts to columns C to F of the row (and its
\* note, if it has one, to column G).
LoadWritten(row, load, field) ==
    /\ Wrote("C" \o IntStr(row), Upper(load.customer), field \o ".customer")
    /\ Wrote("D" \o IntStr(row), load.car_count.v, field \o ".car_count")
    /\ Wrote("E" \o IntStr(row), Upper(load.collection), field \o ".collection")
    /\ Wrote("F" \o IntStr(row), Upper(load.delivery), field \o ".delivery")
    /\ load.note # "" => Wrote("G" \o IntStr(row), Upper(load.note), field \o ".note")

\* The saved workbook holds the load's texts in the row.
LoadHeld(row, load) ==
    /\ Holds("C" \o IntStr(row), Upper(load.customer))
    /\ Holds("D" \o IntStr(row), load.car_count.v)
    /\ Holds("E" \o IntStr(row), Upper(load.collection))
    /\ Holds("F" \o IntStr(row), Upper(load.delivery))
    /\ load.note # "" => Holds("G" \o IntStr(row), Upper(load.note))

\* The loads of the request that go to the overflow region: load data at a
\* position after the third of its day's entries, as <<entry, position>>.
OverflowLoads ==
    UNION {{<<i, p>> : p \in {q \in DOMAIN call.request.days[i].loads :
                                q > 3 /\ IsReal(call.request.days[i].loads[q])}} :
           i \in DOMAIN call.request.days}

\* The overflow loads that come before position p of entry i in input order.
OverflowBefore(i, p) ==
    {at \in OverflowLoads : at[1] < i \/ (at[1] = i /\ at[2] < p)}

\* C4 as stated: with the n loads of a day entry that are load data counted
\* in input order, the first min(n, 3) are held by the entry's fixed rows
\* base_row, base_row + 1, base_row + 2 and each further one by a row of the
\* overflow region whose column B holds the DD/MM/YY date of the entry's day.
C4_AsStated ==
    TimesheetSaved =>
        \A i \in DOMAIN call.request.days :
            LET day_data == call.request.days[i]
                reals == SelectSeq(day_data.loads, IsReal)
            IN \A q \in DOMAIN reals :
                   IF q <= 3
                   THEN LastOfDay(i) => LoadHeld(BaseRowOf(day_data) + q - 1, reals[q])
                   ELSE \E row \in FirstOverflowRow..(locals.overflow_row - 1) :
                            /\ Holds("B" \o IntStr(row), SlashedDate(OwningDate(day_data)))
                            /\ LoadHeld(row, reals[q])

\* C4 amended: the rows go by the position of a load among all the entries of
\* its day, message entries included.  A load at position p <= 3 is written
\* to row base_row + p - 1 (a message entry puts its upper-cased text in
\* column C of that row), and the saved workbook holds it there unless a later
\* day entry is for the same weekday.  A load at a position p > 3 that is load
\* data is written to its own row of the overflow region: row 29 plus the
\* number of overflow loads before it in input order, whose column B holds
\* the DD/MM/YY date of the owning day, week end minus (6 - day_index) days,
\* a date that falls on that weekday; a message entry at a position p > 3 is
\* written nowhere.
C4_LoadsRowsByPosition ==
    TimesheetSaved =>
        /\ \A i \in DOMAIN call.request.days :
             \A p \in DOMAIN call.request.days[i].loads :
                LET day_data == call.request.days[i]
                    load == day_data.loads[p]
                    field == LoadField(i - 1, p - 1)
                    fixed_row == BaseRowOf(day_data) + p - 1
                    overflow_row == FirstOverflowRow + Cardinality(OverflowBefore(i, p))
                    day_date == OwningDate(day_data)
                IN IF p <= 3 /\ IsReal(load)
                   THEN /\ LoadWritten(fixed_row, load, field)
                        /\ LastOfDay(i) => LoadHeld(fixed_row, load)
                   ELSE IF p <= 3
                   THEN /\ Wrote("C" \o IntStr(fixed_row), Upper(load.items.message.v),
                                 field \o ".message")
                        /\ LastOfDay(i) =>
                               Holds("C" \o IntStr(fixed_row), Upper(load.items.message.v))
                   ELSE IF IsReal(load)
                   THEN /\ Weekday(day_date) = DayIndex(day_data.day)
                        /\ Wrote("B" \o IntStr(overflow_row), SlashedDate(day_date),
                                 field \o ".date")
                        /\ Holds("B" \o IntStr(overflow_row), SlashedDate(day_date))
                        /\ LoadWritten(overflow_row, load, field)
                        /\ LoadHeld(overflow_row, load)
                   ELSE \A k \in DOMAIN ws :
                            ~StartsWith(ws[k].field, field \o ".")
        /\ locals.overflow_row = FirstOverflowRow + Cardinality(OverflowLoads)
        /\ \A k, m \in DOMAIN ws :
               (k # m /\ Head(ws[k].cell) = "B") => ws[k].cell # ws[m].cell

C4_Witness ==
    /\ TimesheetSaved
    /\ call.request.week_ending = [y |-> 2025, m |-> 5, d |-> 18]
    /\ Len(call.request.days) = 1
    /\ call.request.days[1].day = "Monday"
    /\ call.request.days[1].loads = [j \in 1..5 |-> RosterLoad(j)]
    /\ Holds("C10", "WBAC 3")
    /\ Holds("B29", "12/05/25") /\ Holds("C29", "WBAC 4")
    /\ Holds("B30", "12/05/25") /\ Holds("C30", "WBAC 5")

\* The hours of a day entry, in hundredths: 0 when it has none or its text
\* does not parse.
HoursOf(day_data) ==
    IF day_data.total_hours = <<>> THEN 0
    ELSE IF float(day_data.total_hours[1]) = <<>> THEN 0
    ELSE float(day_data.total_hours[1])[1]

RECURSIVE SumOfHours(_)
SumOfHours(days) ==
    IF days = <<>> THEN 0 ELSE HoursOf(Head(days)) + SumOfHours(Tail(days))

HoursTextsOf(days) == [i \in DOMAIN days |-> days[i].total_hours]

\* C5 as stated: J29 holds the request's weekly_total_hours verbatim when the
\* request supplies one, and otherwise the sum of the days' total_hours that
\* parse as numbers.
C5_AsStated ==
    TimesheetSaved =>
        LET weekly == call.request.weekly_total_hours
        IN Holds("J29", IF weekly # <<>> /\ weekly[1] # "" THEN weekly[1]
                        ELSE FloatStr(SumOfHours(call.request.days)))

\* C5 amended: J29 holds the request's weekly_total_hours with the whitespace
\* around it stripped when that leaves a text that is not empty; otherwise
\* (none given, or a blank one) it holds str() of the sum of the days'
\* total_hours that parse as numbers, the others contributing nothing, so
\* that days "9", "7.5", "bad", "0" give "16.5".
C5_WeeklyTotalCell ==
    TimesheetSaved =>
        LET weekly == call.request.weekly_total_hours
            given == IF weekly = <<>> THEN "" ELSE Strip(weekly[1])
        IN /\ Holds("J29", IF given # "" THEN given
                           ELSE FloatStr(SumOfHours(call.request.days)))
           /\ (given = "" /\ HoursTextsOf(call.request.days)
                                 = << <<"9">>, <<"7.5">>, <<"bad">>, <<"0">> >>)
                  => Holds("J29", "16.5")

C5_Witness ==
    /\ TimesheetSaved
    /\ call.request.weekly_total_hours = <<>>
    /\ HoursTextsOf(call.request.days) = << <<"bad">>, <<"9">>, <<"7.5">>, <<"0">> >>
    /\ Holds("J29", "16.5")

-----------------------------------------------------------------------------
(* C11: after any sequence of set_pdf_enabled(b), clear_pdf_override() and *)
(* changes of PAPERWORK_DISABLE_PDF, pdf_enabled is the b of the most      *)
(* recent set_pdf_enabled when no clear_pdf_override came after it, and    *)
(* otherwise it is TRUE exactly when the variable is not "true"; as        *)
(* amended, when the variable, lower-cased, is not "true" (unset: enabled).*)

\* The positions in the history of the calls that touch the override.
OverrideOps ==
    {i \in DOMAIN history : history[i].op \in {"set_pdf_enabled", "clear_pdf_override"}}

LastOverrideOp == CHOOSE i \in OverrideOps : \A j \in OverrideOps : j <= i

\* A set_pdf_enabled was made and no clear_pdf_override came after it.
OverrideStands ==
    OverrideOps # {} /\ history[LastOverrideOp].op = "set_pdf_enabled"

DisablePdfText ==
    IF "PAPERWORK_DISABLE_PDF" \in DOMAIN environ
    THEN <<environ["PAPERWORK_DISABLE_PDF"]>> ELSE <<>>

C11_AsStated ==
    pdf_enabled = IF OverrideStands THEN history[LastOverrideOp].enabled
                  ELSE DisablePdfText # <<"true">>

C11_OverrideThenEnvironment ==
    pdf_enabled = IF OverrideStands THEN history[LastOverrideOp].enabled
                  ELSE \/ DisablePdfText = <<>>
                       \/ Lower(DisablePdfText[1]) # "true"

\* An override was set to enabled while the variable said "true", cleared,
\* and set again the other way, after the variable had been written in
\* capitals.
C11_Witness ==
    /\ Len(history) = 4
    /\ history[1] = [op |-> "set_pdf_enabled", enabled |-> TRUE]
    /\ history[2].op = "clear_pdf_override"
    /\ history[3].op = "setenv" /\ history[3].value = "TRUE"
    /\ history[4] = [op |-> "set_pdf_enabled", enabled |-> FALSE]
    /\ ~pdf_enabled

-----------------------------------------------------------------------------
(* C12: the HTTP API serves /api/settings: GET is answered with status 200 *)
(* and the current settings, POST with status 200 and the resulting        *)
(* pdf_enabled.                                                            *)

\* The exchange just made, when a request was answered.
Answered == pc = "done" /\ history # <<>> /\ history[Len(history)].op = "http"

LastExchange == history[Len(history)]

C12_AsStated ==
    Answered /\ LastExchange.path = "/api/settings" /\ LastExchange.method \in {"GET", "POST"}
        => LastExchange.status_code = 200

-----------------------------------------------------------------------------
(* C13: after any sequence of generation requests, successful or failed,   *)
(* the two template files are unchanged: every save goes to a derived path *)
(* under the output folder that is never the path of a template.           *)

\* A generation request is served in this step.
Generates == pc = "idle" /\ pc' = "done"

TemplatePaths == {"../templates/loadsheet.xlsx", "../templates/timesheet.xlsx"}

\* A path, written from settings.output_dir, that stays under it.
UnderOutputDir(path) == ~IsAbsolute(path) /\ ~StartsWith(path, "../")

C13_AsStated ==
    [][Generates =>
          /\ templates' = templates
          /\ \A path \in DOMAIN files' :
                 path \notin TemplatePaths /\ UnderOutputDir(path)]_vars

-----------------------------------------------------------------------------
(* C14: when its template file is missing, generate_loadsheet or           *)
(* generate_timesheet fails with FileNotFoundError before any mutation or  *)
(* I/O: no output folder is created, no file is written and no workbook is *)
(* loaded, so that the same call goes through once the template is there.  *)

\* The template the generator called in this step reads.
TemplateOf(fn) == IF fn = "generate_loadsheet" THEN "loadsheet.xlsx" ELSE "timesheet.xlsx"

C14_MissingTemplateRejectedUntouched ==
    [][Generates /\ TemplateOf(call'.fn) \notin templates =>
          /\ outcome' = Raised("FileNotFoundError")
          /\ folders' = folders /\ files' = files /\ pdfs' = pdfs
          /\ templates' = templates /\ merged_cells' = merged_cells
          /\ ws' = ws /\ locals' = locals]_vars

\* A loadsheet request was answered 404 while the template was missing and,
\* sent again after the template was put in place, left its workbook in the
\* week folder.
C14_Witness ==
    /\ pc = "done" /\ Len(history) = 2
    /\ history[1].path = "/api/loadsheet/generate" /\ history[1].status_code = 404
    /\ history[2].request = history[1].request
    /\ history[2].request.load_number = "L3"
    /\ history[2].status_code # 404
    /\ "loadsheet.xlsx" \in templates
    /\ DOMAIN files = {"18-05-25/L3_WBAC_Maidstone.xlsx"}
    /\ CellText(files["18-05-25/L3_WBAC_Maidstone.xlsx"], "G6") = "L3"

-----------------------------------------------------------------------------
(* C15: at the HTTP boundary of both generate endpoints a missing template *)
(* yields status 404, a ValueError of the generator yields status 400,     *)
(* every other exception the generator raises yields status 500, and a     *)
(* call that raises nothing returns the generator's response.              *)

C15_AsStated ==
    Answered /\ call.fn \in {"generate_loadsheet", "generate_timesheet"} =>
        IF TemplateOf(call.fn) \notin templates
        THEN LastExchange.status_code = 404
        ELSE IF outcome.status = "ValueError"
        THEN LastExchange.status_code = 400
        ELSE IF outcome.status = "returned"
        THEN LastExchange.status_code = 200 /\ LastExchange.content = <<outcome>>
        ELSE LastExchange.status_code = 500

-----------------------------------------------------------------------------
(* C16: if the start time or the finish time of a timesheet day is "SICK"  *)
(* or "HOLIDAY" in any letter case, the start cell and the finish cell of  *)
(* that day both hold that marker and the total-hours cell holds "0", also *)
(* when only finish_time is the marker and start_time is an ordinary time. *)

IsMarker(time) == time # <<>> /\ Upper(time[1]) \in DayMarkers

\* The marker an entry carries: that of start_time, else that of finish_time.
MarkerOf(day_data) ==
    IF IsMarker(day_data.start_time) THEN Upper(day_data.start_time[1])
    ELSE Upper(day_data.finish_time[1])

C16_AsStated ==
    TimesheetSaved =>
        \A i \in DOMAIN call.request.days :
            /\ LastOfDay(i)
            /\ IsMarker(call.request.days[i].start_time)
                   \/ IsMarker(call.request.days[i].finish_time)
            => /\ Holds("H" \o TimeRowOf(call.request.days[i]), MarkerOf(call.request.days[i]))
               /\ Holds("I" \o TimeRowOf(call.request.days[i]), MarkerOf(call.request.days[i]))
               /\ Holds("J" \o TimeRowOf(call.request.days[i]), "0")

-----------------------------------------------------------------------------
(* C17: within one generate_timesheet call the overflow row counter starts *)
(* at row 29, never decreases or resets and advances by exactly one for    *)
(* every load beyond the 3rd of any day, days being taken in the order of  *)
(* the request, so that it ends at 29 plus the number of such loads and no *)
(* two overflow loads share a row.  As amended, the loads that advance it  *)
(* are the entries at a position beyond the 3rd of their day's list that   *)
(* are not message entries.                                                *)

TimesheetCalled == pc = "done" /\ call.fn = "generate_timesheet"

\* The number of entries beyond the third in the lists of the days from i on.
RECURSIVE EntriesBeyondThird(_, _)
EntriesBeyondThird(days, i) ==
    IF i > Len(days) THEN 0
    ELSE (IF Len(days[i].loads) > 3 THEN Len(days[i].loads) - 3 ELSE 0)
             + EntriesBeyondThird(days, i + 1)

\* The entries beyond the third of their day that are not message entries,
\* as <<entry, position>>.
OverflowEntries ==
    UNION {{<<i, p>> : p \in {q \in DOMAIN call.request.days[i].loads :
                                q > 3 /\ ~Truthy(MessageOf(call.request.days[i].loads[q]))}} :
           i \in DOMAIN call.request.days}

\* The assignments of the call to column B, where an overflow row starts.
OverflowDateWrites ==
    SelectSeq(ws, LAMBDA w : w.kind = "value" /\ StartsWith(w.cell, "B"))

C17_AsStated ==
    TimesheetSaved =>
        locals.overflow_row = FirstOverflowRow + EntriesBeyondThird(call.request.days, 1)

C17_OverflowCounter ==
    TimesheetCalled /\ ws # <<>> =>
        /\ \A k \in DOMAIN OverflowDateWrites :
               OverflowDateWrites[k].cell = "B" \o IntStr(FirstOverflowRow + k - 1)
        /\ locals.overflow_row = FirstOverflowRow + Len(OverflowDateWrites)
        /\ TimesheetSaved =>
               /\ Len(OverflowDateWrites) = Cardinality(OverflowEntries)
               /\ \A at \in OverflowEntries :
                      \E k \in DOMAIN OverflowDateWrites :
                          OverflowDateWrites[k].field = LoadField(at[1] - 1, at[2] - 1) \o ".date"

\* Two days with five entries each, the second with a message entry in
\* fourth place: three overflow loads, in rows 29, 30 and 31.
C17_Witness ==
    /\ TimesheetSaved
    /\ Len(call.request.days) = 2
    /\ Len(call.request.days[1].loads) = 5 /\ Len(call.request.days[2].loads) = 5
    /\ Cardinality(OverflowEntries) = 3
    /\ locals.overflow_row = 32
    /\ OverflowDateWrites[3].field = "days[1].loads[4].date"

-----------------------------------------------------------------------------
(* C18: after generate_loadsheet with k cars, 0 <= k <= 8, each mapped     *)
(* cell of a slot i < k holds the upper-cased value of the matching field  *)
(* of car i, and every mapped cell of a slot i >= k is empty in the saved  *)
(* workbook.                                                               *)

LoadsheetSaved ==
    /\ pc = "done"
    /\ call.fn = "generate_loadsheet"
    /\ outcome.status \notin {"FileNotFoundError", "ValueError"}
    /\ locals.excel_path \in DOMAIN files

C18_AsStated ==
    LoadsheetSaved =>
        \A idx \in 0..(Len(CAR_CELL_MAP) - 1) :
            \A k \in DOMAIN CarKeys :
                CellText(files[locals.excel_path], CAR_CELL_MAP[idx + 1][CarKeys[k]])
                    = IF idx < Len(call.request.cars)
                      THEN Upper(CarAttr(call.request.cars[idx + 1], CarKeys[k]))
                      ELSE ""

-----------------------------------------------------------------------------
(* C19: two loadsheet requests whose dates fall in the same week and whose *)
(* load identifiers differ are saved under different file paths, so        *)
(* neither overwrites the other's workbook, and likewise two timesheets    *)
(* that differ in driver name or week.  As amended, the loadsheets are     *)
(* those whose file names, load number "_" sanitized collection point,     *)
(* differ and whose load numbers have no path separator, and the           *)
(* timesheets those that differ in week or in the sanitized driver name.   *)

\* Two requests were sent to one generate endpoint, one after the other, and
\* the workbook of each was saved.
TwoSaved(path) ==
    /\ pc = "done" /\ Len(history) = 2
    /\ \A i \in 1..2 : /\ history[i].op = "http"
                        /\ history[i].path = path
                        /\ history[i].status_code \notin {400, 404}

WeekOf(date) == CHOOSE sunday \in Ymd2Ord(date)..(Ymd2Ord(date) + 6) : Weekday(sunday) = 6

\* A saved workbook holds the load number and the collection point of the
\* loadsheet request.
IsLoadsheetOf(sheet, request) ==
    /\ CellText(sheet, "G6") = request.load_number
    /\ CellText(sheet, "B9") = Upper(request.collection_point)
    /\ CellText(sheet, "C6") = format_date_for_cell(Ymd2Ord(request.load_date))

\* A saved workbook holds the week ending and the driver of the timesheet
\* request.
IsTimesheetOf(sheet, request) ==
    /\ CellText(sheet, "E5") = format_date_for_cell(WeekOf(request.week_ending))
    /\ CellText(sheet, DriverCell) = Upper(request.driver)

\* The disk holds the workbooks of both requests, in two files.
BothLoadsheetsKept ==
    \E first, second \in DOMAIN files :
        /\ first # second
        /\ IsLoadsheetOf(files[first], history[1].request)
        /\ IsLoadsheetOf(files[second], history[2].request)

BothTimesheetsKept ==
    \E first, second \in DOMAIN files :
        /\ first # second
        /\ IsTimesheetOf(files[first], history[1].request)
        /\ IsTimesheetOf(files[second], history[2].request)

HasSeparator(text) == \E i \in 1..Len(text) : Char(text, i) = "/"

FileNameOf(request) ==
    request.load_number \o "_" \o sanitize_filename(request.collection_point)

C19_AsStated ==
    /\ TwoSaved("/api/loadsheet/generate")
           /\ WeekOf(history[1].request.load_date) = WeekOf(history[2].request.load_date)
           /\ history[1].request.load_number # history[2].request.load_number
        => BothLoadsheetsKept
    /\ TwoSaved("/api/timesheet/generate")
           /\ \/ history[1].request.driver # history[2].request.driver
              \/ WeekOf(history[1].request.week_ending) # WeekOf(history[2].request.week_ending)
        => BothTimesheetsKept

C19_DistinctNamesDistinctFiles ==
    /\ TwoSaved("/api/loadsheet/generate")
           /\ WeekOf(history[1].request.load_date) = WeekOf(history[2].request.load_date)
           /\ FileNameOf(history[1].request) # FileNameOf(history[2].request)
           /\ ~HasSeparator(history[1].request.load_number)
           /\ ~HasSeparator(history[2].request.load_number)
        => BothLoadsheetsKept
    /\ TwoSaved("/api/timesheet/generate")
           /\ \/ sanitize_filename(history[1].request.driver)
                     # sanitize_filename(history[2].request.driver)
              \/ WeekOf(history[1].request.week_ending) # WeekOf(history[2].request.week_ending)
        => BothTimesheetsKept

\* Loads L2 and L3 of one collection point, dated in one week, are both on
\* disk after the second was saved.
C19_Witness ==
    /\ TwoSaved("/api/loadsheet/generate")
    /\ history[1].request.load_number = "L2" /\ history[2].request.load_number = "L3"
    /\ history[1].request.collection_point = history[2].request.collection_point
    /\ history[1].request.load_date # history[2].request.load_date
    /\ DOMAIN files = {"18-05-25/L2_WBAC_Maidstone.xlsx", "18-05-25/L3_WBAC_Maidstone.xlsx"}
    /\ BothLoadsheetsKept

-----------------------------------------------------------------------------
(* C20: when two generation requests that derive the same output path run  *)
(* concurrently, in every interleaving of their steps the file left at     *)
(* that path is exactly the complete workbook of the request whose save    *)
(* happened last, never a mix of cell values of the two requests.          *)

\* The requests whose saves went to the path, in the order of the saves.
SaversOf(path) ==
    SelectSeq(history, LAMBDA h : h.op = "save" /\ locals[h.proc].excel_path = path)

LastSaverOf(path) == SaversOf(path)[Len(SaversOf(path))].proc

C20_LastSaveWinsWhole ==
    \A path \in DOMAIN files :
        /\ SaversOf(path) # <<>>
        /\ files[path] = AllWrites(call[LastSaverOf(path)])

\* Two loadsheets for one path, saved one after the other while both were
\* under way: the second request saved first, and the file holds the first
\* request's load number, collection point and single car.
C20_Witness ==
    /\ call[1].fn = "generate_loadsheet" /\ call[2].fn = "generate_loadsheet"
    /\ call[1].request.load_number = "L2" /\ call[2].request.load_number = "L2_WBAC"
    /\ locals[1].excel_path = locals[2].excel_path
    /\ history = <<[op |-> "save", proc |-> 2], [op |-> "save", proc |-> 1]>>
    /\ pc[2] = "saved"
    /\ CellText(files[locals[1].excel_path], "G6") = "L2"
    /\ CellText(files[locals[1].excel_path], "B9") = "WBAC MAIDSTONE"
    /\ CellText(files[locals[1].excel_path], "B15") = ""

-----------------------------------------------------------------------------
(* C21: with the template present, generate_timesheet never rejects a      *)
(* request because of malformed day or load data: whatever keys the        *)
(* free-form dict loads have and whatever the types of their values, a     *)
(* non-string "message" included, the loop over the days raises nothing    *)
(* and the call gets to save its workbook.                                 *)

C21_AsStated ==
    (TimesheetCalled /\ "timesheet.xlsx" \in templates) =>
        TimesheetSaved

-----------------------------------------------------------------------------
(* C22: for fixed settings and templates, what a generation request comes  *)
(* to is a function of its payload alone and does not depend on the        *)
(* requests served before it: a request served again is answered as it was *)
(* answered before, with the same status and the same excel_path and       *)
(* week_folder, and served twice in a row it leaves every saved workbook   *)
(* with the text it had in every cell.                                     *)

\* The exchange an endpoint has just completed, in the state it leaves.
ServedNow == history'[Len(history')]

SameRequest(earlier, later) ==
    /\ earlier.method = later.method
    /\ earlier.path = later.path
    /\ earlier.request = later.request

C22_AsStated ==
    [][(pc = "idle" /\ pc' = "done") =>
           \A k \in DOMAIN history :
               SameRequest(history[k], ServedNow) =>
                   /\ ServedNow.status_code = history[k].status_code
                   /\ ServedNow.content = history[k].content
                   /\ k = Len(history) => (files' = files /\ folders' = folders)]_vars

-----------------------------------------------------------------------------
(* C23: the driver's name ends up in a cell that holds a value.  If the    *)
(* driver cell K3 lies inside a merged range, the upper-cased name is      *)
(* assigned to the top left cell of that range and the saved workbook      *)
(* holds it there; otherwise it is assigned to K3 itself.  The name is     *)
(* assigned once, and never to a cell of a merged range other than the     *)
(* range's top left cell.                                                  *)

\* The merged ranges K3 lies in.
DriverRegions == {range \in merged_cells : InRange(range, 3, 11)}

\* The assignments of the driver's name made by the call.
DriverWrites == SelectSeq(ws, LAMBDA w : w.field = "driver")

\* The cell is in a merged range without being its top left cell.
IsMergedCell(cell) ==
    \E range \in merged_cells :
        \E row \in range.min_row..range.max_row, column \in range.min_col..range.max_col :
            /\ Coordinate(row, column) = cell
            /\ ~(row = range.min_row /\ column = range.min_col)

C23_DriverInAnchorCell ==
    TimesheetSaved =>
        /\ Len(DriverWrites) = 1
        /\ DriverWrites[1].value = Upper(call.request.driver)
        /\ ~IsMergedCell(DriverWrites[1].cell)
        /\ \A range \in DriverRegions :
               /\ DriverWrites[1].cell = Coordinate(range.min_row, range.min_col)
               /\ Holds(Coordinate(range.min_row, range.min_col), Upper(call.request.driver))
        /\ DriverRegions = {} =>
               /\ DriverWrites[1].cell = "K3"
               /\ Holds("K3", Upper(call.request.driver))

\* K3 is the middle cell of J2:L4: the name is in J2.
C23_Witness ==
    /\ TimesheetSaved
    /\ [min_row |-> 2, min_col |-> 10, max_row |-> 4, max_col |-> 12] \in merged_cells
    /\ Holds("J2", "CRAIG EXAMPLE")
    /\ CellText(files[locals.excel_path], "K3") = TemplateText("K3")

-----------------------------------------------------------------------------
(* C24: the fleet registration cell K5 of a timesheet holds the            *)
(* registrations of the request upper-cased and joined by ", ", every      *)
(* registration once (two that differ only in letter case are the same     *)
(* one), in the order of first occurrence, the blank ones left out.        *)

\* The fleet_reg the client sent, as a list.
SentRegs == normalize_fleet_reg(history[Len(history)].fleet_reg)

\* The positions of the registrations sent that are not blank and that no
\* registration before them equals but for letter case.
FirstOccurrences ==
    {i \in DOMAIN SentRegs :
        /\ Strip(SentRegs[i]) # ""
        /\ \A j \in 1..(i - 1) : Upper(SentRegs[j]) # Upper(SentRegs[i])}

\* The k-th of these positions.
FirstOccurrence(k) ==
    CHOOSE i \in FirstOccurrences : Cardinality({j \in FirstOccurrences : j < i}) = k - 1

C24_FleetRegsOnce ==
    (TimesheetSaved /\ history # <<>>) =>
        Holds("K5", Join(", ", [k \in 1..Cardinality(FirstOccurrences) |->
                                    Upper(SentRegs[FirstOccurrence(k)])]))

\* Sent "y6btt", " ", "Y6BTT": one registration is written.
C24_Witness ==
    /\ TimesheetSaved
    /\ history # <<>>
    /\ history[Len(history)].fleet_reg = PyList(<<"y6btt", " ", "Y6BTT">>)
    /\ Holds("K5", "Y6BTT")

-----------------------------------------------------------------------------
(* C25: a load entry among a day's first three that carries a "message"    *)
(* writes only the one text cell in column C of its row, the upper-cased   *)
(* message, and leaves the car count, collection, delivery and note cells  *)
(* of that row as they were in the template; it still occupies its row, so *)
(* the next load of the day goes to the next row.  As amended, the entries *)
(* that do so are those whose message is not empty.                        *)

\* The assignments the call made for the load at position p of entry i.
EntryWrites(i, p) ==
    SelectSeq(ws, LAMBDA w : StartsWith(w.field, LoadField(i - 1, p - 1) \o "."))

\* The row of the sheet a cell is in.
RowOf(cell) == DigitsValue(SubSeq(cell, 2, Len(cell)))

ColumnOf(cell) == SubSeq(cell, 1, 1)

\* The positions among the first three of entry i.
FixedPositions(i) == {p \in DOMAIN call.request.days[i].loads : p <= 3}

CarriesMessage(load) == load.type = "dict" /\ "message" \in DOMAIN load.items

\* The entry carries a message that is not empty ("", 0, None are).
HasMessage(load) == CarriesMessage(load) /\ Truthy(load.items.message)

\* No other entry of the request is for the weekday of entry i.
OnlyOfDay(i) ==
    \A k \in DOMAIN call.request.days :
        k # i => Lower(call.request.days[k].day) # Lower(call.request.days[i].day)

\* The message entry is alone in its row, and the next entry is in the next.
MessageRow(i, p, row) ==
    /\ EntryWrites(i, p)
           = << SetCell("C" \o IntStr(row), Upper(call.request.days[i].loads[p].items.message.v),
                        LoadField(i - 1, p - 1) \o ".message") >>
    /\ OnlyOfDay(i) =>
           /\ Holds("C" \o IntStr(row), Upper(call.request.days[i].loads[p].items.message.v))
           /\ \A column \in {"D", "E", "F", "G"} :
                  Holds(column \o IntStr(row), TemplateText(column \o IntStr(row)))
    /\ (p + 1) \in FixedPositions(i) =>
           \A k \in DOMAIN EntryWrites(i, p + 1) : RowOf(EntryWrites(i, p + 1)[k].cell) = row + 1

C25_AsStated ==
    TimesheetSaved =>
        \A i \in DOMAIN call.request.days :
            \A p \in FixedPositions(i) :
                CarriesMessage(call.request.days[i].loads[p]) =>
                    MessageRow(i, p, BaseRowOf(call.request.days[i]) + p - 1)

C25_MessageEntryRow ==
    (TimesheetCalled /\ ws # <<>>) =>
        \A i \in DOMAIN call.request.days :
            \A p \in FixedPositions(i) :
                HasMessage(call.request.days[i].loads[p]) =>
                    /\ \A k \in DOMAIN EntryWrites(i, p) :
                           /\ ColumnOf(EntryWrites(i, p)[k].cell) = "C"
                           /\ RowOf(EntryWrites(i, p)[k].cell)
                                  = BaseRowOf(call.request.days[i]) + p - 1
                    /\ TimesheetSaved =>
                           MessageRow(i, p, BaseRowOf(call.request.days[i]) + p - 1)

\* Monday's entries are a message, a load and a second message: the message
\* texts are in C8 and C10, the load in row 9, and D8 is as in the template.
C25_Witness ==
    /\ TimesheetSaved
    /\ Len(call.request.days) = 1
    /\ call.request.days[1].loads = <<MessageLoad, RosterLoad(2), MessageLoad>>
    /\ Holds("C8", "NO WORK TODAY") /\ Holds("D8", TemplateText("D8"))
    /\ Holds("C9", "WBAC 2") /\ Holds("D9", "2")
    /\ Holds("C10", "NO WORK TODAY") /\ Holds("G10", TemplateText("G10"))

-----------------------------------------------------------------------------
(* C26: in a timesheet every overflow load is written to a row at or below *)
(* row 29, which is below all the fixed day rows 8 to 28; the fixed rows   *)
(* of one day never overlap the fixed rows of another day; and an overflow *)
(* write, to columns B to G, never touches the weekly total cell J29 nor   *)
(* the time cells of any day, however many overflow loads there are.       *)

\* The assignments of the call to the time cells of the days.
TimeWrites ==
    SelectSeq(ws, LAMBDA w :
        \E i \in DOMAIN call.request.days :
            w.field \in {DayField(i - 1) \o ".start_time", DayField(i - 1) \o ".finish_time",
                         DayField(i - 1) \o ".total_hours"})

\* The rows the call wrote for the entries of entry i among its first three.
FixedRowsOf(i) ==
    UNION {{RowOf(EntryWrites(i, p)[k].cell) : k \in DOMAIN EntryWrites(i, p)} :
           p \in FixedPositions(i)}

\* The assignments of the call for entries beyond the third of their day.
OverflowWrites ==
    SelectSeq(ws, LAMBDA w :
        \E i \in DOMAIN call.request.days :
            \E p \in DOMAIN call.request.days[i].loads :
                p > 3 /\ StartsWith(w.field, LoadField(i - 1, p - 1) \o "."))

\* The overflow writes are in columns B to G of rows from 29 on, away from
\* J29 and from the time cells written.
OverflowPlaced(overflow, times) ==
    \A k \in DOMAIN overflow :
        /\ RowOf(overflow[k].cell) >= 29
        /\ ColumnOf(overflow[k].cell) \in {"B", "C", "D", "E", "F", "G"}
        /\ overflow[k].cell # "J29"
        /\ \A m \in DOMAIN times : times[m].cell # overflow[k].cell

\* rows[i] being the fixed rows written for entry i: they are among 8 to 28
\* and those of entries for different weekdays are disjoint.
FixedRowsApart(rows) ==
    \A i \in DOMAIN rows :
        /\ rows[i] \subseteq 8..28
        /\ \A j \in DOMAIN rows :
               Lower(call.request.days[i].day) # Lower(call.request.days[j].day)
                   => rows[i] \cap rows[j] = {}

TimeCellsPlaced(times) ==
    \A m \in DOMAIN times :
        ColumnOf(times[m].cell) \in {"H", "I", "J"} /\ RowOf(times[m].cell) < 29

C26_OverflowBelowFixedRows ==
    (TimesheetCalled /\ ws # <<>>) =>
        /\ OverflowPlaced(OverflowWrites, TimeWrites)
        /\ FixedRowsApart([i \in DOMAIN call.request.days |-> FixedRowsOf(i)])
        /\ TimeCellsPlaced(TimeWrites)

\* Monday with four loads and Tuesday with five: three overflow loads in
\* rows 29 to 31 under the fixed rows 8 to 10 and 11 to 13, J29 holding the
\* weekly total.
C26_Witness ==
    /\ TimesheetSaved
    /\ Len(call.request.days) = 2
    /\ call.request.days[1].loads = [j \in 1..4 |-> RosterLoad(j)]
    /\ FixedRowsOf(1) = {8, 9, 10} /\ FixedRowsOf(2) = {11, 12, 13}
    /\ Len(OverflowWrites) >= 12
    /\ Holds("B29", "12/05/25") /\ Holds("C29", "WBAC 4")
    /\ Holds("B31", "13/05/25") /\ Holds("C31", "WBAC 5")
    /\ Holds("J29", "16.5")

-----------------------------------------------------------------------------
(* C27: a load is treated the same way among a day's first three loads and *)
(* in the overflow: a message entry in fourth or later position writes     *)
(* nothing and takes no overflow row, and a free-form dict load that has   *)
(* neither a customer nor a collection key writes nothing and takes no row *)
(* in either region.                                                       *)

\* A dict without a message that has neither a customer nor a collection key.
IsKeyless(load) ==
    /\ load.type = "dict"
    /\ ~HasMessage(load)
    /\ "customer" \notin DOMAIN load.items
    /\ "collection" \notin DOMAIN load.items

\* The entries beyond the third of their day that are meant to take a row of
\* the overflow region, as <<entry, position>>.
RowTakingEntries ==
    UNION {{<<i, p>> : p \in {q \in DOMAIN call.request.days[i].loads :
                                /\ q > 3
                                /\ ~HasMessage(call.request.days[i].loads[q])
                                /\ ~IsKeyless(call.request.days[i].loads[q])}} :
           i \in DOMAIN call.request.days}

C27_AsStated ==
    TimesheetSaved =>
        /\ \A i \in DOMAIN call.request.days :
               \A p \in DOMAIN call.request.days[i].loads :
                   ((p > 3 /\ HasMessage(call.request.days[i].loads[p]))
                        \/ IsKeyless(call.request.days[i].loads[p]))
                       => EntryWrites(i, p) = <<>>
        /\ locals.overflow_row = 29 + Cardinality(RowTakingEntries)

=============================================================================
